---- MODULE Spec2Model ----
(***************************************************************************)
(* Capture and correlation engine of the llama.cpp UI metrics extension.   *)
(*                                                                         *)
(*   Spec       the SSE parser parseSseCloneAndEmitRecord (injected.js)    *)
(*   SpecRotate the pure decision function shouldRotateChain               *)
(*   SpecChain  the background "record" message handlers, two of them at   *)
(*              a time interleaved at their awaits (background.js)         *)
(*   SpecSeq    the same handlers, one record at a time, on two tabs       *)
(*   SpecTurns  the same handlers on one tab, with a longer conversation   *)
(*   SpecAgg    buildDashboardStats and buildScenarioComparisons, called   *)
(*              on an array of records and on a rearrangement of it        *)
(*   SpecTiming the wall-clock marks and client_timing of one request      *)
(*   SpecStats, SpecHashes  the dashboard statistics and prompt hash rows  *)
(*   SpecFetch    the wrapped window.fetch: the clone read by the parser   *)
(*   SpecClear    clearRecords next to a record handler (background.js)    *)
(*   SpecImport   importRecords: validation before the store is replaced   *)
(*   SpecCapture  the content script's allow-list checks and capture start *)
(*   SpecCategory categorizeFinishReason on the parser's finish reasons    *)
(*   SpecText     the capped accumulation of content and reasoning text    *)
(*   SpecSplit    one response body cut into reads at arbitrary places     *)
(*   SpecFail     a record handler whose chain-state storage calls fail    *)
(*   SpecAttach   attachment events and the requests that report them      *)
(*                                                                         *)
(* Milliseconds reported by the server (timings.predicted_ms) are counted  *)
(* in units of 0.0005 ms, so that roundMs (three decimals) is a real       *)
(* rounding on integers.  Wall-clock times are in whole milliseconds.      *)
(*                                                                         *)
(* makeChainId and makeSessionId (a time stamp and a random suffix) are    *)
(* taken to give an id that was not given before: ids are numbered.        *)
(***************************************************************************)
EXTENDS Integers, Sequences, FiniteSets, TLC

\* ------------------------------------------------------------------------
\* Bounds of the model
\* ------------------------------------------------------------------------
MaxLines == 3          \* lines in one response stream
MaxReadAtoms == 4      \* longest piece one reader.read() delivers
MaxCount == 2          \* largest user-message count of a request
MaxAggRecords == 3     \* records in one array handed to the aggregation
MaxRecords == 3        \* record messages the background worker receives
MaxClock == 2          \* latest reading of the wall clock of a request
MaxExtraHashes == 1    \* prompt hashes beyond the rows of prompt_hash_controls
MaxTailRecords == 2    \* records that follow the hashed pairs in an array
MaxBodyChunks == 3     \* chunks in the body of one response
MaxImport == 2         \* elements of an imported array
MaxChecks == 3         \* calls of maybeStartCapture on one page
MaxDeltas == 3         \* chunks with a delta in one parse
MaxSplitLines == 2     \* lines of a body read in arbitrary pieces
MaxAttEvents == 2      \* attachment events, and captured requests, of one page

\* ------------------------------------------------------------------------
\* Values
\* ------------------------------------------------------------------------
\* null / undefined of a numeric field
NullNum == -999999
\* null / undefined of a string field
NullStr == "<null>"
\* a chunk variable that holds null
NoChunk == [object |-> "<null>"]
\* a missing timings object
NoTimings == [absent |-> TRUE]
\* no chain state stored for a tab (getTabChainState gives null)
NoState == [absent |-> "state"]

\* const CHAIN_STATE_IDLE_RESET_MS = 30 * 60 * 1000
CHAIN_STATE_IDLE_RESET_MS == 30 * 60 * 1000
\* const CHAIN_DUPLICATE_PROMPT_WINDOW_MS = 2 * 60 * 1000
CHAIN_DUPLICATE_PROMPT_WINDOW_MS == 2 * 60 * 1000

VARIABLES
    \* ---- parser (one invocation of parseSseCloneAndEmitRecord) ----
    stream,             \* the whole body of the cloned response, as atoms
    pos,                \* atoms already delivered by reader.read()
    buffer,             \* let buffer
    stopChunk,          \* let stopChunk
    lastTimingsAtStop,  \* let lastTimingsAtStop
    stopFinishReason,   \* let stopFinishReason
    lastTimedChunk,     \* let lastTimedChunk
    sawDoneMarker,      \* let sawDoneMarker
    reasoningBoundary,  \* let reasoningBoundary
    pc,                 \* position of the invocation
    returning,          \* the catch block executed `return`
    readerLocked,       \* the reader still holds the lock of clone.body
    posted,             \* window.postMessage calls of type LLAMACPP_METRICS_RECORD
    processed,          \* history: chunks and [DONE] markers the line loop accepted
    \* ---- one call of shouldRotateChain(state, signals, ts, sender) ----
    rotState,           \* argument state
    rotSignals,         \* argument signals
    rotTs,              \* argument ts
    rotSender,          \* origin of sender.tab.url, or null
    rotResult,          \* "pending" before the call, then "true" or "false"
    \* ---- background worker ----
    chainStore,         \* chrome.storage.local: tab_chain_state_<tabId>
    active_session_id,  \* chrome.storage.local: active_session_id
    sessions,           \* IndexedDB store "sessions"
    recordsDb,          \* IndexedDB store "records"
    handlers,           \* the invocations of the onMessage listener for "record"
    closedTabs,         \* tabs whose onRemoved event was delivered
    now,                \* Date.now()
    nextChainSeq,       \* chain ids minted so far
    nextSessionSeq,     \* session ids minted so far
    lastStamped,        \* history: per tab, the record stamped last
    \* ---- one call of each aggregation function ----
    aggRecords,         \* argument records
    aggShuffled,        \* the same records in another order
    aggSelected,        \* argument selectedModel, or null
    aggStats,           \* buildDashboardStats(aggRecords)
    aggStatsShuffled,   \* buildDashboardStats(aggShuffled)
    aggScenario,        \* buildScenarioComparisons(aggRecords, aggSelected)
    aggScenarioShuffled,\* buildScenarioComparisons(aggShuffled, aggSelected)
    aggRows,            \* records_compact: buildDashboardRecords(aggRecords)
    aggRowsShuffled,    \* records_compact: buildDashboardRecords(aggShuffled)
    \* ---- client timing of one captured request ----
    timPc,              \* position of the request
    timingContext,      \* argument timingContext of the parser
    firstStreamChunkAtMs, \* let firstStreamChunkAtMs
    stopChunkAtMs,      \* let stopChunkAtMs
    client_timing,      \* response.client_timing of the emitted record
    \* ---- one call of the wrapped window.fetch ----
    fetchPc,            \* position of the wrapped window.fetch call
    shouldCapture,      \* const shouldCapture
    isSse,              \* const isSse of the parser
    bodyLen,            \* chunks the server sends as the response body
    netPos,             \* chunks the network delivered so far
    origQueue,          \* chunks buffered in response.body
    cloneQueue,         \* chunks buffered in clone.body
    callerBody,         \* chunks the caller of fetch read from the returned response
    returned,           \* the object the wrapper returned to its caller
    fetchParserPc,      \* position of parseSseCloneAndEmitRecord
    parserGot,          \* chunks the parser read
    gotAtReturn,        \* history: parserGot when the wrapper returned
    \* ---- the clear_all message ----
    clearPc,            \* position of the listener invocation for clear_all
    clearSid,           \* const sid of that invocation
    preClear,           \* history: the record messages received before clear_all
    \* ---- one call of importJsonlRecords(records) ----
    impPc,              \* position of the importJsonlRecords call
    impInput,           \* argument records
    impStore,           \* IndexedDB store "records"
    impActive,          \* chrome.storage.local: active_session_id
    impSid,             \* const inferredSession
    impBefore,          \* history: the store and the active session id at the call
    \* ---- content script: start of capture ----
    allowed_domains,    \* chrome.storage.local: allowed_domains
    checks,             \* the calls of maybeStartCapture, the startup call first
    captureStarted,     \* let __captureStarted
    startCount,         \* history: how often startCapture mounted, injected and installed
    matchSeen,          \* history: a check found the host matching a pattern
    \* ---- the stop reason of one record ----
    catPc,              \* position of the categorisation
    catPath,            \* how the finish reason is reached: a terminal chunk, a [DONE] marker, or a direct call
    catRaw,             \* choices[0].finish_reason of the chunk, or the argument of a direct call
    catStop,            \* let stopFinishReason
    catFinal,           \* const finishReasonFinal
    catCategory,        \* guardrails.stop_reason_category, or the result of a direct call
    \* ---- captured text of one parse ----
    txtDeltas,          \* history: choices[0].delta of the chunks processed so far
    responseText,       \* let responseText
    reasoningText,      \* let reasoningText
    \* ---- one parse of a body read in arbitrary pieces ----
    splStream,          \* the body of the response, cut into pieces smaller than a line
    splPos,             \* pieces read so far
    splLocals,          \* the local variables of the read loop
    splPc,              \* position of the invocation
    splPosted,          \* the record posted, with its id, model and captured text
    splCutInJson,       \* history: a read ended inside a JSON payload
    \* ---- storage failures during chain assignment ----
    failed,             \* the record messages whose assignChainMetadata call threw
    answers,            \* the responses sent for the record messages
    \* ---- attachment events and captured requests of one page ----
    attNow,             \* Date.now()
    pendingAttachments, \* const pendingAttachments (version, lastEventAtMs, files)
    attachmentSignal,   \* const attachmentSignal (lastEventAtMs, lastConsumedEventAtMs)
    lastConsumedAttachmentVersion,\* let lastConsumedAttachmentVersion
    attInFlight,        \* the captured request that awaits originalFetch, or 0
    attLog              \* history: the attachment events, the fetch calls and the request metadata built

parserVars == <<stream, pos, buffer, stopChunk, lastTimingsAtStop, stopFinishReason,
                lastTimedChunk, sawDoneMarker, reasoningBoundary, pc, returning,
                readerLocked, posted, processed>>

rotVars == <<rotState, rotSignals, rotTs, rotSender, rotResult>>

bgVars == <<chainStore, active_session_id, sessions, recordsDb, handlers, closedTabs,
            now, nextChainSeq, nextSessionSeq, lastStamped>>

aggVars == <<aggRecords, aggShuffled, aggSelected, aggStats, aggStatsShuffled,
             aggScenario, aggScenarioShuffled, aggRows, aggRowsShuffled>>

timVars == <<timPc, timingContext, firstStreamChunkAtMs, stopChunkAtMs, client_timing>>

fetchVars == <<fetchPc, shouldCapture, isSse, bodyLen, netPos, origQueue, cloneQueue, callerBody, returned, fetchParserPc, parserGot, gotAtReturn>>

clearVars == <<clearPc, clearSid, preClear>>

impVars == <<impPc, impInput, impStore, impActive, impSid, impBefore>>

capVars == <<allowed_domains, checks, captureStarted, startCount, matchSeen>>

catVars == <<catPc, catPath, catRaw, catStop, catFinal, catCategory>>

txtVars == <<txtDeltas, responseText, reasoningText>>

splVars == <<splStream, splPos, splLocals, splPc, splPosted, splCutInJson>>

failVars == <<failed, answers>>

attVars == <<attNow, pendingAttachments, attachmentSignal, lastConsumedAttachmentVersion, attInFlight, attLog>>

auxVars == <<fetchVars, clearVars, impVars, capVars, catVars, txtVars, splVars, failVars, attVars>>

vars == <<parserVars, rotVars, bgVars, aggVars, timVars, auxVars>>

\* ------------------------------------------------------------------------
\* Response streams
\* ------------------------------------------------------------------------
NL == [a |-> "\n"]
DataPrefix == [a |-> "data:"]
DoneText == [a |-> "[DONE]"]
OtherText == [a |-> "text"]
Json(c) == [a |-> "json", chunk |-> c]

\* timings objects a chunk may carry (predicted_n, predicted_ms)
T1 == [predicted_n |-> 1, predicted_ms |-> 1]
T2 == [predicted_n |-> 2, predicted_ms |-> 2]
TNull == [predicted_n |-> NullNum, predicted_ms |-> NullNum]

\* a completion chunk: choices[0].finish_reason, timings, and whether
\* choices[0].delta.reasoning_content is a string
Chunk(fr, t, r) ==
    [object |-> "chat.completion.chunk", finish_reason |-> fr, timings |-> t, reasoning |-> r]

\* JSON payloads of the data lines
Chunks ==
    { Chunk(NullStr, T1, FALSE),        \* a delta with timings
      Chunk(NullStr, T1, TRUE),         \* reasoning deltas with timings
      Chunk(NullStr, T2, TRUE),
      Chunk("", NoTimings, FALSE),      \* an empty finish_reason
      Chunk("stop", NoTimings, FALSE),  \* a final chunk without timings
      Chunk("stop", T2, FALSE),         \* final chunks with timings
      Chunk("stop", TNull, FALSE) }

\* a JSON payload that is not a completion chunk (object is something else)
OtherObject ==
    [object |-> "error", finish_reason |-> "stop", timings |-> T1, reasoning |-> TRUE]

\* the text of one line, without its newline
LineSet ==
    { <<DataPrefix, Json(c)>> : c \in Chunks }
    \cup { <<DataPrefix, DoneText>>, <<OtherText>>, <<DataPrefix, OtherText>>,
           <<DataPrefix, Json(OtherObject)>> }

RECURSIVE Flatten(_)
Flatten(ls) ==
    IF ls = <<>> THEN <<>> ELSE Head(ls) \o <<NL>> \o Flatten(Tail(ls))

\* bodies: up to MaxLines lines, the last one with or without its newline
LineSeqs == UNION { [1..n -> LineSet] : n \in 0..MaxLines }
Streams ==
    { Flatten(ls) : ls \in LineSeqs }
    \cup { SubSeq(Flatten(ls), 1, Len(Flatten(ls)) - 1) : ls \in LineSeqs \ {<<>>} }

\* ------------------------------------------------------------------------
\* Helpers of injected.js
\* ------------------------------------------------------------------------
\* Math.round(x * 1000) / 1000 on a value counted in units of 0.0005 ms
roundMs(x) == IF x = NullNum THEN NullNum ELSE 2 * ((x + 1) \div 2)

Max0(x) == IF x > 0 THEN x ELSE 0

\* buffer.indexOf("\n"): 0 when there is none
RECURSIVE IndexOfNL(_, _)
IndexOfNL(b, i) ==
    IF i > Len(b) THEN 0 ELSE IF b[i] = NL THEN i ELSE IndexOfNL(b, i + 1)

\* the local variables of the read loop, as one value
Locals ==
    [ buffer |-> buffer, stopChunk |-> stopChunk, lastTimingsAtStop |-> lastTimingsAtStop,
      stopFinishReason |-> stopFinishReason, lastTimedChunk |-> lastTimedChunk,
      sawDoneMarker |-> sawDoneMarker, reasoningBoundary |-> reasoningBoundary,
      processed |-> processed, brk |-> FALSE ]

\* safeJsonParse(data) of the payload of a data line: the object, or null
safeJsonParse(data) ==
    IF Len(data) = 1 /\ data[1].a = "json" THEN data[1].chunk ELSE NoChunk

\* the [DONE] branch of the line loop
DoneLine(s) ==
    LET s1 == [s EXCEPT !.sawDoneMarker = TRUE,
                        !.processed = Append(@, DoneText)]
    IN IF s.stopChunk = NoChunk /\ s.lastTimedChunk # NoChunk
       THEN [s1 EXCEPT !.stopChunk = s.lastTimedChunk,
                       !.lastTimingsAtStop = s.lastTimedChunk.timings,
                       !.stopFinishReason =
                           IF s.lastTimedChunk.finish_reason = NullStr
                           THEN "done" ELSE s.lastTimedChunk.finish_reason,
                       !.brk = TRUE]
       ELSE s1

\* ChunkLine as it would be if lastTimedChunk kept the first chunk with timings
ChunkLineFirstTimed(s, chunk) ==
    LET s1 == [s EXCEPT !.processed = Append(@, Json(chunk))]
        s2 == IF chunk.timings # NoTimings /\ s.lastTimedChunk = NoChunk
              THEN [s1 EXCEPT !.lastTimedChunk = chunk] ELSE s1
        s3 == IF chunk.reasoning /\ chunk.timings # NoTimings
              THEN [s2 EXCEPT !.reasoningBoundary = chunk.timings] ELSE s2
    IN IF chunk.finish_reason # NullStr /\ chunk.finish_reason # ""
       THEN [s3 EXCEPT !.stopChunk = chunk,
                       !.lastTimingsAtStop = chunk.timings,
                       !.stopFinishReason = chunk.finish_reason,
                       !.brk = TRUE]
       ELSE s3

\* ChunkLine as it would be if the first reasoning boundary were kept
ChunkLineFirstBoundary(s, chunk) ==
    LET s1 == [s EXCEPT !.processed = Append(@, Json(chunk))]
        s2 == IF chunk.timings # NoTimings
              THEN [s1 EXCEPT !.lastTimedChunk = chunk] ELSE s1
        s3 == IF chunk.reasoning /\ chunk.timings # NoTimings
                 /\ s.reasoningBoundary = NoTimings
              THEN [s2 EXCEPT !.reasoningBoundary = chunk.timings] ELSE s2
    IN IF chunk.finish_reason # NullStr /\ chunk.finish_reason # ""
       THEN [s3 EXCEPT !.stopChunk = chunk,
                       !.lastTimingsAtStop = chunk.timings,
                       !.stopFinishReason = chunk.finish_reason,
                       !.brk = TRUE]
       ELSE s3

\* ChunkLine as it would be without the break after a final chunk
ChunkLineNoBreak(s, chunk) ==
    LET s1 == [s EXCEPT !.processed = Append(@, Json(chunk))]
        s2 == IF chunk.timings # NoTimings
              THEN [s1 EXCEPT !.lastTimedChunk = chunk] ELSE s1
        s3 == IF chunk.reasoning /\ chunk.timings # NoTimings
              THEN [s2 EXCEPT !.reasoningBoundary = chunk.timings] ELSE s2
    IN IF chunk.finish_reason # NullStr /\ chunk.finish_reason # ""
       THEN [s3 EXCEPT !.stopChunk = chunk,
                       !.lastTimingsAtStop = chunk.timings,
                       !.stopFinishReason = chunk.finish_reason]
       ELSE s3

\* the body of the line loop for one parsed completion chunk
ChunkLine(s, chunk) ==
    LET s1 == [s EXCEPT !.processed = Append(@, Json(chunk))]
        s2 == IF chunk.timings # NoTimings
              THEN [s1 EXCEPT !.lastTimedChunk = chunk] ELSE s1
        s3 == IF chunk.reasoning /\ chunk.timings # NoTimings
              THEN [s2 EXCEPT !.reasoningBoundary = chunk.timings] ELSE s2
    IN IF chunk.finish_reason # NullStr /\ chunk.finish_reason # ""
       THEN [s3 EXCEPT !.stopChunk = chunk,
                       !.lastTimingsAtStop = chunk.timings,
                       !.stopFinishReason = chunk.finish_reason,
                       !.brk = TRUE]
       ELSE s3

\* OneLine as it would be without the test of chunk.object
OneLineAnyObject(s, line) ==
    IF line = <<>> \/ line[1] # DataPrefix THEN s
    ELSE LET data == Tail(line) IN
         IF data = <<>> THEN s
         ELSE IF data = <<DoneText>> THEN DoneLine(s)
         ELSE LET chunk == safeJsonParse(data) IN
              IF chunk = NoChunk THEN s
              ELSE ChunkLine(s, chunk)

\* one line taken off the buffer
OneLine(s, line) ==
    IF line = <<>> \/ line[1] # DataPrefix THEN s
    ELSE LET data == Tail(line) IN
         IF data = <<>> THEN s
         ELSE IF data = <<DoneText>> THEN DoneLine(s)
         ELSE LET chunk == safeJsonParse(data) IN
              IF chunk = NoChunk \/ chunk.object # "chat.completion.chunk" THEN s
              ELSE ChunkLine(s, chunk)

\* while ((lineEnd = buffer.indexOf("\n")) !== -1) { ... }
RECURSIVE LineLoop(_)
LineLoop(s) ==
    LET lineEnd == IndexOfNL(s.buffer, 1) IN
    IF lineEnd = 0 THEN s
    ELSE LET line == SubSeq(s.buffer, 1, lineEnd - 1)
             rest == SubSeq(s.buffer, lineEnd + 1, Len(s.buffer))
             s1 == OneLine([s EXCEPT !.buffer = rest], line)
         IN IF s1.brk THEN s1 ELSE LineLoop(s1)

SetLocals(s) ==
    /\ buffer' = s.buffer
    /\ stopChunk' = s.stopChunk
    /\ lastTimingsAtStop' = s.lastTimingsAtStop
    /\ stopFinishReason' = s.stopFinishReason
    /\ lastTimedChunk' = s.lastTimedChunk
    /\ sawDoneMarker' = s.sawDoneMarker
    /\ reasoningBoundary' = s.reasoningBoundary
    /\ processed' = s.processed

\* ------------------------------------------------------------------------
\* parseSseCloneAndEmitRecord
\* ------------------------------------------------------------------------
ParserInit ==
    /\ stream \in Streams
    /\ pos = 0
    /\ buffer = <<>>
    /\ stopChunk = NoChunk
    /\ lastTimingsAtStop = NoTimings
    /\ stopFinishReason = NullStr
    /\ lastTimedChunk = NoChunk
    /\ sawDoneMarker = FALSE
    /\ reasoningBoundary = NoTimings
    /\ pc = "read"
    /\ returning = FALSE
    /\ readerLocked = TRUE
    /\ posted = <<>>
    /\ processed = <<>>

\* reader.read() resolves with the next k atoms; the line loop runs; the read
\* loop is left when a stop chunk was set
ReadValue ==
    /\ pc = "read"
    /\ \E k \in 1..MaxReadAtoms :
         /\ pos + k <= Len(stream)
         /\ pos' = pos + k
         /\ LET s == LineLoop([Locals EXCEPT
                          !.buffer = buffer \o SubSeq(stream, pos + 1, pos + k)])
            IN /\ SetLocals(s)
               /\ pc' = IF s.stopChunk # NoChunk THEN "finally" ELSE "read"
    /\ UNCHANGED <<stream, returning, readerLocked, posted>>

\* reader.read() resolves with done: true
ReadDone ==
    /\ pc = "read"
    /\ pos = Len(stream)
    /\ pc' = "finally"
    /\ UNCHANGED <<stream, pos, buffer, stopChunk, lastTimingsAtStop, stopFinishReason,
                   lastTimedChunk, sawDoneMarker, reasoningBoundary, returning,
                   readerLocked, posted, processed>>

\* reader.read() rejects (network error, aborted request)
ReadThrow ==
    /\ pc = "read"
    /\ pc' = "catch"
    /\ UNCHANGED <<stream, pos, buffer, stopChunk, lastTimingsAtStop, stopFinishReason,
                   lastTimedChunk, sawDoneMarker, reasoningBoundary, returning,
                   readerLocked, posted, processed>>

\* the catch block as it would be without the finally block after it
CatchWithoutFinally ==
    /\ pc = "catch"
    /\ returning' = TRUE
    /\ pc' = "done"
    /\ UNCHANGED <<stream, pos, buffer, stopChunk, lastTimingsAtStop, stopFinishReason,
                   lastTimedChunk, sawDoneMarker, reasoningBoundary,
                   readerLocked, posted, processed>>

\* catch (e) { debugLog(...); return; }
Catch ==
    /\ pc = "catch"
    /\ returning' = TRUE
    /\ pc' = "finally"
    /\ UNCHANGED <<stream, pos, buffer, stopChunk, lastTimingsAtStop, stopFinishReason,
                   lastTimedChunk, sawDoneMarker, reasoningBoundary,
                   readerLocked, posted, processed>>

\* finally { try { reader.releaseLock(); } catch {} }
Finally ==
    /\ pc = "finally"
    /\ readerLocked' = FALSE
    /\ pc' = IF returning THEN "done" ELSE "fallback"
    /\ UNCHANGED <<stream, pos, buffer, stopChunk, lastTimingsAtStop, stopFinishReason,
                   lastTimedChunk, sawDoneMarker, reasoningBoundary, returning,
                   posted, processed>>

\* if ((!stopChunk || !lastTimingsAtStop) && lastTimedChunk && sawDoneMarker) { ... }
Fallback ==
    /\ pc = "fallback"
    /\ IF /\ (stopChunk = NoChunk \/ lastTimingsAtStop = NoTimings)
          /\ lastTimedChunk # NoChunk
          /\ sawDoneMarker
       THEN /\ stopChunk' = lastTimedChunk
            /\ lastTimingsAtStop' = lastTimedChunk.timings
            /\ stopFinishReason' = IF lastTimedChunk.finish_reason = NullStr
                                    THEN "done" ELSE lastTimedChunk.finish_reason
       ELSE UNCHANGED <<stopChunk, lastTimingsAtStop, stopFinishReason>>
    /\ pc' = "emit"
    /\ UNCHANGED <<stream, pos, buffer, lastTimedChunk, sawDoneMarker, reasoningBoundary,
                   returning, readerLocked, posted, processed>>

\* Derived as it would be if the content part were the total, not the difference
DerivedNoSubtract(total, boundary) ==
    LET rPredN == IF boundary = NoTimings \/ boundary.predicted_n = NullNum
                  THEN 0 ELSE boundary.predicted_n
        rPredMs == IF boundary = NoTimings \/ boundary.predicted_ms = NullNum
                   THEN 0 ELSE boundary.predicted_ms
    IN [ reasoning_n |-> IF boundary # NoTimings THEN rPredN ELSE 0,
         reasoning_ms |-> IF boundary # NoTimings THEN roundMs(rPredMs) ELSE 0,
         content_n |-> total.predicted_n,
         content_ms |-> roundMs(total.predicted_ms) ]

\* the reasoning/content split of the record (const totalPredN ... cPredMs, derived)
Derived(total, boundary) ==
    LET totalPredN == total.predicted_n
        totalPredMs == total.predicted_ms
        rPredN == IF boundary = NoTimings \/ boundary.predicted_n = NullNum
                  THEN 0 ELSE boundary.predicted_n
        rPredMs == IF boundary = NoTimings \/ boundary.predicted_ms = NullNum
                   THEN 0 ELSE boundary.predicted_ms
        cPredN == IF totalPredN # NullNum THEN Max0(totalPredN - rPredN) ELSE NullNum
        cPredMs == IF totalPredMs # NullNum THEN Max0(totalPredMs - rPredMs) ELSE NullNum
    IN [ reasoning_n |-> IF boundary # NoTimings THEN rPredN ELSE 0,
         reasoning_ms |-> IF boundary # NoTimings THEN roundMs(rPredMs) ELSE 0,
         content_n |-> IF boundary # NoTimings THEN cPredN ELSE totalPredN,
         content_ms |-> IF boundary # NoTimings THEN roundMs(cPredMs)
                        ELSE roundMs(totalPredMs) ]

\* const record = { ... }
Record ==
    [ finish_reason |-> IF stopFinishReason = NullStr THEN "stop" ELSE stopFinishReason,
      timings |-> [ predicted_n |-> lastTimingsAtStop.predicted_n,
                    predicted_ms |-> roundMs(lastTimingsAtStop.predicted_ms) ],
      derived |-> Derived(lastTimingsAtStop, reasoningBoundary) ]

\* Emit as it would be if the record were posted from inside the read loop
EmitAndKeepReading ==
    /\ pc = "emit"
    /\ IF stopChunk = NoChunk \/ lastTimingsAtStop = NoTimings
       THEN pc' = "done" /\ posted' = posted
       ELSE pc' = "read" /\ posted' = Append(posted, Record)
    /\ UNCHANGED <<stream, pos, buffer, stopChunk, lastTimingsAtStop, stopFinishReason,
                   lastTimedChunk, sawDoneMarker, reasoningBoundary, returning,
                   readerLocked, processed>>

\* Emit as it would be without the test of lastTimingsAtStop: reading
\* lastTimingsAtStop.predicted_n of null throws, and the call rejects
EmitWithoutTimingsTest ==
    /\ pc = "emit"
    /\ IF stopChunk = NoChunk
       THEN pc' = "done" /\ posted' = posted
       ELSE IF lastTimingsAtStop = NoTimings
            THEN pc' = "rejected" /\ posted' = posted
            ELSE pc' = "done" /\ posted' = Append(posted, Record)
    /\ UNCHANGED <<stream, pos, buffer, stopChunk, lastTimingsAtStop, stopFinishReason,
                   lastTimedChunk, sawDoneMarker, reasoningBoundary, returning,
                   readerLocked, processed>>

\* if (!stopChunk || !lastTimingsAtStop) return;  ...  window.postMessage(record)
Emit ==
    /\ pc = "emit"
    /\ IF stopChunk = NoChunk \/ lastTimingsAtStop = NoTimings
       THEN pc' = "done" /\ posted' = posted
       ELSE pc' = "done" /\ posted' = Append(posted, Record)
    /\ UNCHANGED <<stream, pos, buffer, stopChunk, lastTimingsAtStop, stopFinishReason,
                   lastTimedChunk, sawDoneMarker, reasoningBoundary, returning,
                   readerLocked, processed>>

\* ------------------------------------------------------------------------
\* Properties of the parser
\* ------------------------------------------------------------------------
\* the lines of a body: the text before each newline, and the unterminated rest
RECURSIVE LinesOf(_)
LinesOf(b) ==
    LET i == IndexOfNL(b, 1) IN
    IF i = 0 THEN (IF b = <<>> THEN <<>> ELSE <<b>>)
    ELSE <<SubSeq(b, 1, i - 1)>> \o LinesOf(SubSeq(b, i + 1, Len(b)))

IsDoneLineText(l) == l = <<DataPrefix, DoneText>>
IsChunkLineText(l) ==
    /\ Len(l) = 2 /\ l[1] = DataPrefix /\ l[2].a = "json"
    /\ l[2].chunk.object = "chat.completion.chunk"

HasFinish(c) == c.finish_reason # NullStr /\ c.finish_reason # ""
HasTimings(c) == c.timings # NoTimings

\* the completion chunks the body carries, in order
StreamChunkIdx == { i \in 1..Len(LinesOf(stream)) : IsChunkLineText(LinesOf(stream)[i]) }
StreamChunk(i) == LinesOf(stream)[i][2].chunk
StreamHasDone == \E i \in 1..Len(LinesOf(stream)) : IsDoneLineText(LinesOf(stream)[i])

SetMax(S) == CHOOSE x \in S : \A y \in S : y <= x

\* the chunks and markers the line loop has accepted
ProcessedChunkIdx == { i \in 1..Len(processed) : processed[i].a = "json" }
ProcessedTimedIdx == { i \in ProcessedChunkIdx : HasTimings(processed[i].chunk) }
LastProcessedTimed == processed[SetMax(ProcessedTimedIdx)].chunk

\* the timings object of a record built from the timings t of a chunk
RecordTimings(t) ==
    [predicted_n |-> t.predicted_n, predicted_ms |-> roundMs(t.predicted_ms)]

Abs(x) == IF x < 0 THEN -x ELSE x

\* C1: one invocation posts at most one LLAMACPP_METRICS_RECORD message, and
\* only after it has left the read loop and released the reader.
C1_AtMostOneRecordAfterReading ==
    /\ Len(posted) <= 1
    /\ posted # <<>> => (pc = "done" /\ ~readerLocked)

\* a record was posted although the body had more to deliver
C1_Witness == Len(posted) = 1 /\ pos < Len(stream)

C3_NoTerminalNoRecord ==
    /\ pc # "rejected"
    /\ (pc = "done" /\ (stopChunk = NoChunk \/ lastTimingsAtStop = NoTimings))
         => posted = <<>>

\* a final chunk without timings ended the parse, and a chunk with timings had
\* been seen
C3_Witness ==
    /\ pc = "done"
    /\ stopChunk # NoChunk /\ lastTimingsAtStop = NoTimings
    /\ lastTimedChunk # NoChunk
    /\ posted = <<>>

\* C10 (as stated): in every posted record reasoning_n + content_n equals
\* timings.predicted_n, reasoning_ms + content_ms equals timings.predicted_ms,
\* and both content values are at least 0.
C10_SplitSumsExact ==
    \A i \in 1..Len(posted) :
      LET r == posted[i] IN
      /\ r.derived.content_n # NullNum /\ r.timings.predicted_n # NullNum
      /\ r.derived.reasoning_n + r.derived.content_n = r.timings.predicted_n
      /\ r.derived.content_ms # NullNum /\ r.timings.predicted_ms # NullNum
      /\ r.derived.reasoning_ms + r.derived.content_ms = r.timings.predicted_ms
      /\ r.derived.content_n >= 0 /\ r.derived.content_ms >= 0

\* C10 (amended): in every posted record whose timings.predicted_n is a number
\* not below reasoning_n, reasoning_n + content_n equals predicted_n; when
\* timings.predicted_ms is a number not below reasoning_ms, reasoning_ms +
\* content_ms is within 0.001 ms of predicted_ms; content values that are
\* not null are at least 0, and are null only when the total is.
C10_SplitSums ==
    \A i \in 1..Len(posted) :
      LET r == posted[i] IN
      /\ (r.timings.predicted_n # NullNum /\ r.derived.reasoning_n <= r.timings.predicted_n)
           => r.derived.reasoning_n + r.derived.content_n = r.timings.predicted_n
      /\ (r.timings.predicted_ms # NullNum /\ r.derived.reasoning_ms <= r.timings.predicted_ms)
           => Abs(r.derived.reasoning_ms + r.derived.content_ms - r.timings.predicted_ms) <= 2
      /\ r.derived.content_n # NullNum => r.derived.content_n >= 0
      /\ r.derived.content_ms # NullNum => r.derived.content_ms >= 0
      /\ r.derived.content_n = NullNum <=> r.timings.predicted_n = NullNum
      /\ r.derived.content_ms = NullNum <=> r.timings.predicted_ms = NullNum

\* a record with a reasoning part and a content part
C10_Witness ==
    \E i \in 1..Len(posted) :
      /\ posted[i].derived.reasoning_n = 1
      /\ posted[i].derived.content_n = 1
      /\ posted[i].timings.predicted_n = 2


\* the processed chunks that carried a reasoning_content delta and timings
ProcessedReasoningIdx ==
    { i \in ProcessedTimedIdx : processed[i].chunk.reasoning }
LastProcessedReasoning == processed[SetMax(ProcessedReasoningIdx)].chunk

ProcessedTerminalIdx ==
    { i \in ProcessedTimedIdx : HasFinish(processed[i].chunk) }

\* C12: once a chunk with a non-empty finish_reason and timings has been
\* processed, no later line is processed and no further read is made, and the
\* record posted at the end carries the finish_reason and the timings of that
\* chunk.
C12_TerminalChunkStops ==
    \A i \in ProcessedTerminalIdx :
      /\ i = Len(processed)
      /\ pc \notin {"read", "catch"}
      /\ ~returning
      /\ pc = "done" =>
           /\ Len(posted) = 1
           /\ posted[1].finish_reason = processed[i].chunk.finish_reason
           /\ posted[1].timings = RecordTimings(processed[i].chunk.timings)

\* a record was posted for a terminal chunk while a later line, delivered by
\* the same read, was left in the buffer
C12_Witness ==
    /\ pc = "done"
    /\ ProcessedTerminalIdx # {}
    /\ Len(posted) = 1
    /\ \E k \in 1..Len(buffer) : buffer[k] = DataPrefix

\* a line the line loop skips: no "data:" prefix, a payload that is not JSON,
\* or a JSON payload whose object is not "chat.completion.chunk"
IsSkippedLineText(l) == ~IsDoneLineText(l) /\ ~IsChunkLineText(l)

\* the body b with its skipped lines (and their newlines) removed
RECURSIVE RemoveSkipped(_)
RemoveSkipped(b) ==
    LET i == IndexOfNL(b, 1) IN
    IF i = 0 THEN (IF IsSkippedLineText(b) THEN <<>> ELSE b)
    ELSE LET l == SubSeq(b, 1, i - 1)
             rest == RemoveSkipped(SubSeq(b, i + 1, Len(b)))
         IN IF IsSkippedLineText(l) THEN rest ELSE l \o <<NL>> \o rest

\* the body made of the accepted chunks and markers h, one data line each
RECURSIVE AcceptedBody(_)
AcceptedBody(h) ==
    IF h = <<>> THEN <<>>
    ELSE <<DataPrefix, Head(h), NL>> \o AcceptedBody(Tail(h))

\* the local variables before the first read
FirstLocals ==
    [ buffer |-> <<>>, stopChunk |-> NoChunk, lastTimingsAtStop |-> NoTimings,
      stopFinishReason |-> NullStr, lastTimedChunk |-> NoChunk,
      sawDoneMarker |-> FALSE, reasoningBoundary |-> NoTimings,
      processed |-> <<>>, brk |-> FALSE ]

\* the local variables after the line loop has run over the body b
LocalsAfter(b) == [LineLoop([FirstLocals EXCEPT !.buffer = b]) EXCEPT !.buffer = <<>>,
                                                                    !.brk = FALSE]

\* the messages posted for the local variables s the read loop ended with
PostedFor(s) ==
    LET fb == /\ (s.stopChunk = NoChunk \/ s.lastTimingsAtStop = NoTimings)
              /\ s.lastTimedChunk # NoChunk
              /\ s.sawDoneMarker
        total == IF fb THEN s.lastTimedChunk.timings ELSE s.lastTimingsAtStop
        reason == IF fb
                  THEN (IF s.lastTimedChunk.finish_reason = NullStr
                        THEN "done" ELSE s.lastTimedChunk.finish_reason)
                  ELSE s.stopFinishReason
    IN IF (~fb /\ s.stopChunk = NoChunk) \/ total = NoTimings THEN <<>>
       ELSE << [ finish_reason |-> IF reason = NullStr THEN "stop" ELSE reason,
                 timings |-> RecordTimings(total),
                 derived |-> Derived(total, s.reasoningBoundary) ] >>

\* C13: lines without the "data:" prefix, payloads that are not JSON and
\* payloads whose object is not "chat.completion.chunk" change no parser
\* state: while reading, the local variables are those the accepted chunks
\* and [DONE] markers alone produce, and the messages posted for a body read
\* without error are those posted for the body with all such lines removed.
C13_SkippedLinesChangeNothing ==
    /\ \A i \in 1..Len(processed) :
         processed[i] = DoneText \/ IsChunkLineText(<<DataPrefix, processed[i]>>)
    /\ pc \in {"read", "catch", "finally"} =>
         [Locals EXCEPT !.buffer = <<>>] = LocalsAfter(AcceptedBody(processed))
    /\ (pc = "done" /\ ~returning) =>
         posted = PostedFor(LocalsAfter(RemoveSkipped(stream)))

\* a record was posted after a payload that is not JSON and a payload with
\* another object were read
C13_Witness ==
    /\ pc = "done"
    /\ Len(posted) = 1
    /\ pos = Len(stream)
    /\ \E i \in 1..Len(LinesOf(stream)) : LinesOf(stream)[i] = <<DataPrefix, OtherText>>
    /\ \E i \in 1..Len(LinesOf(stream)) : LinesOf(stream)[i] = <<DataPrefix, Json(OtherObject)>>

ParserNext ==
    \/ ReadValue
    \/ ReadDone
    \/ ReadThrow
    \/ Catch
    \/ Finally
    \/ Fallback
    \/ Emit

\* ------------------------------------------------------------------------
\* Conversation signals (background.js)
\* ------------------------------------------------------------------------
\* JavaScript values of the fields of a record
Undefined == [t |-> "undefined"]
Num(n) == [t |-> "number", v |-> n]
Str(x) == [t |-> "string", v |-> x]

\* toPositiveInt(x); Math.floor is the identity on the whole numbers modelled
toPositiveInt(x) ==
    IF x.t = "number" /\ x.v > 0 THEN x.v ELSE NullNum

\* typeof x === "string" ? x : null
StringOrNull(x) == IF x.t = "string" THEN x.v ELSE NullStr

\* toPositiveInt(x) || 0
OrZero(n) == IF n = NullNum THEN 0 ELSE n

\* getConversationSignals as it would be if it never read the prompt hash
getConversationSignalsNoHash(record) ==
    [ userCount |-> toPositiveInt(record.user),
      assistantCount |-> OrZero(toPositiveInt(record.assistant)),
      toolCount |-> OrZero(toPositiveInt(record.tool)),
      messagesCount |-> toPositiveInt(record.messages_count),
      promptHash |-> NullStr,
      uiOrigin |-> StringOrNull(record.ui_origin),
      endpoint |-> StringOrNull(record.endpoint) ]

\* getConversationSignals(record), with getCountsFromRecord
getConversationSignals(record) ==
    [ userCount |-> toPositiveInt(record.user),
      assistantCount |-> OrZero(toPositiveInt(record.assistant)),
      toolCount |-> OrZero(toPositiveInt(record.tool)),
      messagesCount |-> toPositiveInt(record.messages_count),
      promptHash |-> StringOrNull(record.prompt_hash),
      uiOrigin |-> StringOrNull(record.ui_origin),
      endpoint |-> StringOrNull(record.endpoint) ]

\* looksLikeFirstTurn as it would be without the limit on the message count
looksLikeFirstTurnAnyLength(signals) ==
    IF signals.userCount # 1 THEN FALSE
    ELSE IF signals.assistantCount > 0 \/ signals.toolCount > 0 THEN FALSE
    ELSE TRUE

\* looksLikeFirstTurn(signals)
looksLikeFirstTurn(signals) ==
    IF signals.userCount # 1 THEN FALSE
    ELSE IF signals.assistantCount > 0 \/ signals.toolCount > 0 THEN FALSE
    ELSE IF signals.messagesCount = NullNum THEN TRUE
    ELSE signals.messagesCount <= 4

\* a string that is neither null nor empty
Truthy(x) == x # NullStr /\ x # ""

\* shouldRotateChain as it would be if the duplicate window excluded its end
shouldRotateChainOpenWindow(state, signals, ts, sender) ==
    IF state = NoState THEN TRUE
    ELSE
    LET lastSeenMs == state.last_seen_ms
        prevOrigin == state.ui_origin
        currOrigin == IF Truthy(signals.uiOrigin) THEN signals.uiOrigin ELSE sender
        prevUserCount == state.last_user_count
        samePrompt == /\ Truthy(signals.promptHash)
                      /\ state.last_prompt_hash # NullStr
                      /\ signals.promptHash = state.last_prompt_hash
        nearDuplicate == /\ samePrompt
                         /\ lastSeenMs # NullNum
                         /\ ts - lastSeenMs < CHAIN_DUPLICATE_PROMPT_WINDOW_MS
    IN IF lastSeenMs # NullNum /\ ts - lastSeenMs > CHAIN_STATE_IDLE_RESET_MS THEN TRUE
       ELSE IF Truthy(prevOrigin) /\ Truthy(currOrigin) /\ prevOrigin # currOrigin THEN TRUE
       ELSE IF /\ signals.userCount # NullNum
               /\ prevUserCount # NullNum
               /\ signals.userCount < prevUserCount THEN TRUE
       ELSE IF looksLikeFirstTurn(signals) /\ ~nearDuplicate THEN TRUE
       ELSE FALSE

\* shouldRotateChain as it would be with an idle limit that is reached at
\* exactly CHAIN_STATE_IDLE_RESET_MS
shouldRotateChainIdleInclusive(state, signals, ts, sender) ==
    IF state = NoState THEN TRUE
    ELSE
    LET lastSeenMs == state.last_seen_ms
        prevOrigin == state.ui_origin
        currOrigin == IF Truthy(signals.uiOrigin) THEN signals.uiOrigin ELSE sender
        prevUserCount == state.last_user_count
        samePrompt == /\ Truthy(signals.promptHash)
                      /\ state.last_prompt_hash # NullStr
                      /\ signals.promptHash = state.last_prompt_hash
        nearDuplicate == /\ samePrompt
                         /\ lastSeenMs # NullNum
                         /\ ts - lastSeenMs <= CHAIN_DUPLICATE_PROMPT_WINDOW_MS
    IN IF lastSeenMs # NullNum /\ ts - lastSeenMs >= CHAIN_STATE_IDLE_RESET_MS THEN TRUE
       ELSE IF Truthy(prevOrigin) /\ Truthy(currOrigin) /\ prevOrigin # currOrigin THEN TRUE
       ELSE IF /\ signals.userCount # NullNum
               /\ prevUserCount # NullNum
               /\ signals.userCount < prevUserCount THEN TRUE
       ELSE IF looksLikeFirstTurn(signals) /\ ~nearDuplicate THEN TRUE
       ELSE FALSE

\* shouldRotateChain(state, signals, ts, sender); sender stands for the origin
\* of sender.tab.url (null when there is no tab URL or it does not parse)
shouldRotateChain(state, signals, ts, sender) ==
    IF state = NoState THEN TRUE
    ELSE
    LET lastSeenMs == state.last_seen_ms
        prevOrigin == state.ui_origin
        currOrigin == IF Truthy(signals.uiOrigin) THEN signals.uiOrigin ELSE sender
        prevUserCount == state.last_user_count
        samePrompt == /\ Truthy(signals.promptHash)
                      /\ state.last_prompt_hash # NullStr
                      /\ signals.promptHash = state.last_prompt_hash
        nearDuplicate == /\ samePrompt
                         /\ lastSeenMs # NullNum
                         /\ ts - lastSeenMs <= CHAIN_DUPLICATE_PROMPT_WINDOW_MS
    IN IF lastSeenMs # NullNum /\ ts - lastSeenMs > CHAIN_STATE_IDLE_RESET_MS THEN TRUE
       ELSE IF Truthy(prevOrigin) /\ Truthy(currOrigin) /\ prevOrigin # currOrigin THEN TRUE
       ELSE IF /\ signals.userCount # NullNum
               /\ prevUserCount # NullNum
               /\ signals.userCount < prevUserCount THEN TRUE
       ELSE IF looksLikeFirstTurn(signals) /\ ~nearDuplicate THEN TRUE
       ELSE FALSE

\* the state object assignChainMetadata hands to setTabChainState
ChainState(chainId, turnNumber, ts, signals) ==
    [ chain_id |-> chainId,
      turn_number |-> turnNumber,
      last_seen_ms |-> ts,
      last_user_count |-> signals.userCount,
      last_messages_count |-> signals.messagesCount,
      last_prompt_hash |-> signals.promptHash,
      ui_origin |-> signals.uiOrigin,
      endpoint |-> signals.endpoint ]

\* ------------------------------------------------------------------------
\* SpecRotate: shouldRotateChain on drawn arguments
\* ------------------------------------------------------------------------
Origins == {"https://a.example", "https://b.example"}
Hashes == {"h1", "h2"}
Endpoint == "/v1/chat/completions"

\* signals as getConversationSignals returns them
SignalsSet ==
    [ userCount : {NullNum} \cup 1..MaxCount,
      assistantCount : {0, 1},
      toolCount : {0, 1},
      messagesCount : {NullNum, 2, 4, 5},
      promptHash : {NullStr} \cup Hashes,
      uiOrigin : {NullStr} \cup Origins,
      endpoint : {Endpoint} ]

\* the time of the record before, and times of a record after it
LastSeen == 5000000
TsSet ==
    { LastSeen + d : d \in { -1000, 0, CHAIN_DUPLICATE_PROMPT_WINDOW_MS,
                              CHAIN_DUPLICATE_PROMPT_WINDOW_MS + 1,
                              CHAIN_STATE_IDLE_RESET_MS,
                              CHAIN_STATE_IDLE_RESET_MS + 1 } }

\* states as setTabChainState stores them, and no state
StatesSet ==
    { NoState } \cup
    { ChainState(1, 1, LastSeen,
                 [ userCount |-> u, assistantCount |-> 0, toolCount |-> 0,
                   messagesCount |-> 2, promptHash |-> h, uiOrigin |-> o,
                   endpoint |-> Endpoint ]) :
        u \in {NullNum} \cup 1..MaxCount,
        h \in {NullStr} \cup Hashes,
        o \in {NullStr} \cup Origins }

RotInit ==
    /\ rotState \in StatesSet
    /\ rotSignals \in SignalsSet
    /\ rotTs \in TsSet
    /\ rotSender \in {NullStr} \cup Origins
    /\ rotResult = "pending"

RotIdle ==
    /\ rotState = NoState
    /\ rotSignals = getConversationSignals([ user |-> Undefined, assistant |-> Undefined,
           tool |-> Undefined, messages_count |-> Undefined, prompt_hash |-> Undefined,
           ui_origin |-> Undefined, endpoint |-> Undefined ])
    /\ rotTs = 0
    /\ rotSender = NullStr
    /\ rotResult = "idle"

\* the call
CallShouldRotate ==
    /\ rotResult = "pending"
    /\ rotResult' = IF shouldRotateChain(rotState, rotSignals, rotTs, rotSender)
                     THEN "true" ELSE "false"
    /\ UNCHANGED <<rotState, rotSignals, rotTs, rotSender>>

\* ------------------------------------------------------------------------
\* Properties of shouldRotateChain
\* ------------------------------------------------------------------------
\* the five reasons to rotate, as the specification words them; a comparison
\* with an unknown (null) value does not hold
RotNoPrior == rotState = NoState
RotIdleTooLong == rotTs - rotState.last_seen_ms > 1800000
RotCurrOrigin == IF rotSignals.uiOrigin # NullStr THEN rotSignals.uiOrigin ELSE rotSender
RotOriginChanged ==
    /\ rotState.ui_origin # NullStr /\ RotCurrOrigin # NullStr
    /\ rotState.ui_origin # RotCurrOrigin
RotUserCountLower ==
    /\ rotState.last_user_count # NullNum /\ rotSignals.userCount # NullNum
    /\ rotSignals.userCount < rotState.last_user_count
RotFirstTurn ==
    /\ rotSignals.userCount = 1
    /\ rotSignals.assistantCount = 0 /\ rotSignals.toolCount = 0
    /\ (rotSignals.messagesCount = NullNum \/ rotSignals.messagesCount <= 4)
RotSameHash ==
    /\ rotSignals.promptHash # NullStr
    /\ rotSignals.promptHash = rotState.last_prompt_hash
RotNearDuplicate == RotSameHash /\ rotTs - rotState.last_seen_ms <= 120000

\* C6: shouldRotateChain returns true exactly when there is no prior state,
\* or the idle time exceeds 30 minutes, or the origin changed, or the
\* user-message count dropped, or the record looks like a first turn and is
\* not a near-duplicate of the record before.
C6_RotateIffReason ==
    rotResult \in {"true", "false"} =>
      ( rotResult = "true" <=>
          ( \/ RotNoPrior
            \/ ( /\ ~RotNoPrior
                 /\ ( \/ RotIdleTooLong
                      \/ RotOriginChanged
                      \/ RotUserCountLower
                      \/ (RotFirstTurn /\ ~RotNearDuplicate) ) ) ) )

\* a call with a prior state and none of the reasons returned false
C6_Witness ==
    /\ rotResult = "false"
    /\ rotState # NoState
    /\ rotSignals.userCount = 2
    /\ rotState.last_user_count = 1

\* C20: with a prior state whose last_seen_ms is L, a call with timestamp ts
\* returns true whenever ts - L exceeds 1,800,000 ms, whatever the other
\* signals; when ts - L is at most 1,800,000 ms it returns true only for
\* another reason (origin change, lower user count, first turn).
C20_IdleReset ==
    (rotResult \in {"true", "false"} /\ rotState # NoState) =>
      /\ rotTs - rotState.last_seen_ms > 1800000 => rotResult = "true"
      /\ (rotTs - rotState.last_seen_ms <= 1800000 /\ rotResult = "true") =>
            (RotOriginChanged \/ RotUserCountLower \/ RotFirstTurn)

\* a later turn exactly 1,800,000 ms after the record before stayed in the chain
C20_Witness ==
    /\ rotResult = "false"
    /\ rotState # NoState
    /\ rotTs - rotState.last_seen_ms = 1800000
    /\ rotSignals.userCount = 2

\* the premises of C7: a prior state inside the idle window, an unchanged
\* origin, and a record that looks like a first turn
C7_Premise ==
    /\ rotResult \in {"true", "false"}
    /\ rotState # NoState
    /\ rotTs - rotState.last_seen_ms <= 1800000
    /\ ~RotOriginChanged
    /\ RotFirstTurn

\* C7 (as stated): under these premises the call rotates when the prompt hash
\* differs or more than 2 minutes passed, and does not rotate when the hash
\* is identical and at most 2 minutes passed.
C7_FirstTurnBranch ==
    C7_Premise =>
      /\ (~RotSameHash \/ rotTs - rotState.last_seen_ms > 120000) => rotResult = "true"
      /\ (RotSameHash /\ rotTs - rotState.last_seen_ms <= 120000) => rotResult = "false"

\* C7 (amended): as stated, but the call is only known not to rotate when,
\* besides an identical hash within 2 minutes, the prior user-message count
\* is unknown or not above 1.
C7_FirstTurnBranchNoRegression ==
    C7_Premise =>
      /\ (~RotSameHash \/ rotTs - rotState.last_seen_ms > 120000) => rotResult = "true"
      /\ ( /\ RotSameHash /\ rotTs - rotState.last_seen_ms <= 120000
           /\ (rotState.last_user_count = NullNum \/ rotState.last_user_count <= 1) )
         => rotResult = "false"

\* a first turn replayed with the same hash exactly 2 minutes later continued
C7_Witness ==
    /\ C7_Premise
    /\ RotSameHash
    /\ rotTs - rotState.last_seen_ms = 120000
    /\ rotResult = "false"

\* ------------------------------------------------------------------------
\* Background worker: the "record" message (background.js)
\* ------------------------------------------------------------------------
Tabs == {1, 2}
\* sender.tab is missing (the message does not come from a tab)
NoTab == 0
StartTime == 5000000
\* time that passes between two messages: the duplicate window, and more
Gaps == { CHAIN_DUPLICATE_PROMPT_WINDOW_MS, CHAIN_DUPLICATE_PROMPT_WINDOW_MS + 1 }
\* messages that arrive together
NoGap == { 0 }

\* the fields of a record the correlator reads
RawRecord(u, a, m, h, o) ==
    [ user |-> u, assistant |-> a, tool |-> Undefined, messages_count |-> m,
      prompt_hash |-> h, ui_origin |-> o, endpoint |-> Str(Endpoint) ]

\* a message: the record, and the origin of sender.tab.url
Message(r, so) == [record |-> r, sender |-> so]

OriginA == "https://a.example"

\* a first turn (system and user message), and later turns of a conversation
TurnMessages ==
    { Message(RawRecord(Num(1), Undefined, Num(2), Str("h1"), Str(OriginA)), OriginA) }
    \cup
    { Message(RawRecord(Num(u), Num(u - 1), Num(2 * u), Str("h2"), Str(OriginA)), OriginA) :
        u \in 2..MaxCount }

Messages ==
    TurnMessages \cup
    { \* a first turn whose prompt could not be hashed
      Message(RawRecord(Num(1), Undefined, Num(2), Undefined, Str(OriginA)), OriginA),
      \* a request whose body is not a JSON string: no counts, no prompt hash
      Message(RawRecord(Undefined, Undefined, Undefined, Undefined, Str(OriginA)), OriginA) }

\* a conversation of one tab that goes on for one more turn, with a request
\* whose body is not a JSON string in between
LongTurnMessages ==
    TurnMessages \cup
    { Message(RawRecord(Num(MaxCount + 1), Num(MaxCount), Num(2 * MaxCount + 2),
                        Str("h2"), Str(OriginA)), OriginA),
      Message(RawRecord(Undefined, Undefined, Undefined, Undefined, Str(OriginA)), OriginA) }

NoRecord == RawRecord(Undefined, Undefined, Undefined, Undefined, Undefined)
NoPrev == [absent |-> "prev"]

\* a listener invocation that has not started, or has answered
BlankHandler(p) ==
    [ pc |-> p, tab |-> NoTab, record |-> NoRecord, sender |-> NullStr, ts |-> 0,
      sidRead |-> NullNum, sid |-> NullNum, state |-> NoState,
      chain_id |-> 0, turn_number |-> 0, prev |-> NoPrev ]

BgInit ==
    /\ chainStore = [t \in Tabs |-> NoState]
    /\ active_session_id = NullNum
    /\ sessions = {}
    /\ recordsDb = {}
    /\ handlers = [i \in 1..MaxRecords |-> BlankHandler("none")]
    /\ closedTabs = {}
    /\ now = StartTime
    /\ nextChainSeq = 0
    /\ nextSessionSeq = 0
    /\ lastStamped = [t \in Tabs |-> NoPrev]

InFlight == { i \in 1..MaxRecords : handlers[i].pc \notin {"none", "done"} }

\* chrome.runtime.onMessage delivers a record message of trace i: the listener
\* starts addRecord, which awaits the read of active_session_id.
\* limit: how many invocations may be in flight before this one;
\* tabs, msgs, gaps: the senders, messages and arrival times drawn
Receive(i, limit, tabs, msgs, gaps) ==
    /\ handlers[i].pc = "none"
    /\ \A j \in 1..(i - 1) : handlers[j].pc # "none"
    /\ Cardinality(InFlight) <= limit
    /\ \E t \in tabs \ closedTabs, m \in msgs, g \in gaps :
         /\ now' = now + g
         /\ handlers' = [handlers EXCEPT ![i] =
                [BlankHandler("getActiveSessionId") EXCEPT
                    !.tab = t, !.record = m.record, !.sender = m.sender, !.ts = now + g]]
    /\ UNCHANGED <<chainStore, active_session_id, sessions, recordsDb, closedTabs,
                   nextChainSeq, nextSessionSeq, lastStamped>>

\* getActiveSessionId: chrome.storage.local.get(["active_session_id"]) is served
ReadSession(i) ==
    /\ handlers[i].pc = "getActiveSessionId"
    /\ handlers' = [handlers EXCEPT ![i].sidRead = active_session_id,
                                     ![i].pc = "haveSession"]
    /\ UNCHANGED <<chainStore, active_session_id, sessions, recordsDb, closedTabs, now,
                   nextChainSeq, nextSessionSeq, lastStamped>>

\* getActiveSessionId resumes: the stored id, or makeSessionId and setActiveSession;
\* addRecord sets record.session_id and calls assignChainMetadata, which awaits
\* getTabChainState
HaveSession(i) ==
    /\ handlers[i].pc = "haveSession"
    /\ IF handlers[i].sidRead # NullNum
       THEN /\ handlers' = [handlers EXCEPT ![i].sid = handlers[i].sidRead,
                                            ![i].pc = "getTabChainState"]
            /\ UNCHANGED <<active_session_id, sessions, nextSessionSeq>>
       ELSE /\ nextSessionSeq' = nextSessionSeq + 1
            /\ active_session_id' = nextSessionSeq + 1
            /\ sessions' = sessions \cup {nextSessionSeq + 1}
            /\ handlers' = [handlers EXCEPT ![i].sid = nextSessionSeq + 1,
                                            ![i].pc = "getTabChainState"]
    /\ UNCHANGED <<chainStore, recordsDb, closedTabs, now, nextChainSeq, lastStamped>>

\* getTabChainState(tabId): chrome.storage.local.get([key]) is served
\* (null without a tab id)
ReadChainState(i) ==
    /\ handlers[i].pc = "getTabChainState"
    /\ handlers' = [handlers EXCEPT
           ![i].state = IF handlers[i].tab = NoTab THEN NoState
                        ELSE chainStore[handlers[i].tab],
           ![i].pc = "stamp"]
    /\ UNCHANGED <<chainStore, active_session_id, sessions, recordsDb, closedTabs, now,
                   nextChainSeq, nextSessionSeq, lastStamped>>

\* assignChainMetadata as it would be if a continued chain kept its turn number
ChainMetaNoIncrement(state, signals, ts, sender, freshId) ==
    IF shouldRotateChain(state, signals, ts, sender)
    THEN <<freshId, 1, TRUE>>
    ELSE LET n == OrZero(toPositiveInt(Num(state.turn_number)))
         IN <<state.chain_id, IF n > 1 THEN n ELSE 1, FALSE>>

\* assignChainMetadata as it would be if a rotation kept the chain id of a
\* stored state
ChainMetaKeepId(state, signals, ts, sender, freshId) ==
    IF shouldRotateChain(state, signals, ts, sender)
    THEN <<IF state = NoState THEN freshId ELSE state.chain_id, 1, state = NoState>>
    ELSE LET n == OrZero(toPositiveInt(Num(state.turn_number))) + 1
         IN <<state.chain_id, IF n > 1 THEN n ELSE 1, FALSE>>

\* the chain id and turn number assignChainMetadata chooses, and whether it
\* mints a new id: <<chainId, turnNumber, minted>>
ChainMeta(state, signals, ts, sender, freshId) ==
    IF shouldRotateChain(state, signals, ts, sender)
    THEN <<freshId, 1, TRUE>>
    ELSE LET n == OrZero(toPositiveInt(Num(state.turn_number))) + 1
         IN <<state.chain_id, IF n > 1 THEN n ELSE 1, FALSE>>

\* history: the greatest known user-message count among the records stamped
\* with chain id chainId, given the record prev stamped before on the tab
ChainUserMax(prev, chainId, userCount) ==
    IF prev # NoPrev /\ prev.chain_id = chainId /\ prev.chain_user_max > userCount
    THEN prev.chain_user_max
    ELSE userCount

\* Stamp as it would be if the state were written only when a chain starts
StampStateOnRotation(i) ==
    /\ handlers[i].pc = "stamp"
    /\ LET h == handlers[i]
           signals == getConversationSignals(h.record)
           meta == ChainMeta(h.state, signals, h.ts, h.sender, nextChainSeq + 1)
       IN /\ nextChainSeq' = IF meta[3] THEN nextChainSeq + 1 ELSE nextChainSeq
          /\ handlers' = [handlers EXCEPT
                 ![i].chain_id = meta[1],
                 ![i].turn_number = meta[2],
                 ![i].prev = IF h.tab = NoTab THEN NoPrev ELSE lastStamped[h.tab],
                 ![i].pc = "put"]
          /\ IF h.tab # NoTab
             THEN /\ chainStore' = IF meta[3]
                                   THEN [chainStore EXCEPT ![h.tab] =
                                            ChainState(meta[1], meta[2], h.ts, signals)]
                                   ELSE chainStore
                  /\ lastStamped' = [lastStamped EXCEPT ![h.tab] =
                         [ record |-> h.record, ts |-> h.ts,
                           chain_id |-> meta[1], turn_number |-> meta[2],
                           chain_user_max |->
                               ChainUserMax(lastStamped[h.tab], meta[1],
                                            signals.userCount) ]]
             ELSE UNCHANGED <<chainStore, lastStamped>>
    /\ UNCHANGED <<active_session_id, sessions, recordsDb, closedTabs, now, nextSessionSeq>>

\* assignChainMetadata resumes with the state read: it decides, stamps the
\* record and calls setTabChainState
Stamp(i) ==
    /\ handlers[i].pc = "stamp"
    /\ LET h == handlers[i]
           signals == getConversationSignals(h.record)
           meta == ChainMeta(h.state, signals, h.ts, h.sender, nextChainSeq + 1)
       IN /\ nextChainSeq' = IF meta[3] THEN nextChainSeq + 1 ELSE nextChainSeq
          /\ handlers' = [handlers EXCEPT
                 ![i].chain_id = meta[1],
                 ![i].turn_number = meta[2],
                 ![i].prev = IF h.tab = NoTab THEN NoPrev ELSE lastStamped[h.tab],
                 ![i].pc = "put"]
          /\ IF h.tab # NoTab
             THEN /\ chainStore' = [chainStore EXCEPT ![h.tab] =
                                        ChainState(meta[1], meta[2], h.ts, signals)]
                  /\ lastStamped' = [lastStamped EXCEPT ![h.tab] =
                         [ record |-> h.record, ts |-> h.ts,
                           chain_id |-> meta[1], turn_number |-> meta[2],
                           chain_user_max |->
                               ChainUserMax(lastStamped[h.tab], meta[1],
                                            signals.userCount) ]]
             ELSE UNCHANGED <<chainStore, lastStamped>>
    /\ UNCHANGED <<active_session_id, sessions, recordsDb, closedTabs, now, nextSessionSeq>>

\* Put as it would be if the record were put as received, before the stamping
PutAsReceived(i) ==
    /\ handlers[i].pc = "put"
    /\ recordsDb' = recordsDb \cup
          { [ trace_id |-> i, session_id |-> NullNum, tab |-> handlers[i].tab,
              chain_id |-> 0, turn_number |-> 0 ] }
    /\ handlers' = [handlers EXCEPT ![i] = BlankHandler("done")]
    /\ UNCHANGED <<chainStore, active_session_id, sessions, closedTabs, now,
                   nextChainSeq, nextSessionSeq, lastStamped>>

\* addRecord puts the record into the records store and the listener answers
Put(i) ==
    /\ handlers[i].pc = "put"
    /\ recordsDb' = recordsDb \cup
          { [ trace_id |-> i, session_id |-> handlers[i].sid, tab |-> handlers[i].tab,
              chain_id |-> handlers[i].chain_id,
              turn_number |-> handlers[i].turn_number ] }
    /\ handlers' = [handlers EXCEPT ![i] = BlankHandler("done")]
    /\ UNCHANGED <<chainStore, active_session_id, sessions, closedTabs, now,
                   nextChainSeq, nextSessionSeq, lastStamped>>

\* chrome.tabs.onRemoved: clearTabChainState(tabId)
TabRemoved(t) ==
    /\ t \notin closedTabs
    /\ closedTabs' = closedTabs \cup {t}
    /\ chainStore' = [chainStore EXCEPT ![t] = NoState]
    /\ UNCHANGED <<active_session_id, sessions, recordsDb, handlers, now,
                   nextChainSeq, nextSessionSeq, lastStamped>>

\* messages that arrive together are handled concurrently: a listener starts
\* while another one awaits
BgNext ==
    \/ \E i \in 1..MaxRecords : Receive(i, 1, {1, NoTab}, TurnMessages, NoGap)
    \/ \E i \in 1..MaxRecords : ReadSession(i)
    \/ \E i \in 1..MaxRecords : HaveSession(i)
    \/ \E i \in 1..MaxRecords : ReadChainState(i)
    \/ \E i \in 1..MaxRecords : Stamp(i)
    \/ \E i \in 1..MaxRecords : Put(i)
    \/ TabRemoved(1)

\* one message at a time: a listener starts when none is in flight; the
\* second tab may be closed
BgNextSeq ==
    \/ \E i \in 1..MaxRecords : Receive(i, 0, Tabs, Messages, Gaps)
    \/ \E i \in 1..MaxRecords : ReadSession(i)
    \/ \E i \in 1..MaxRecords : HaveSession(i)
    \/ \E i \in 1..MaxRecords : ReadChainState(i)
    \/ \E i \in 1..MaxRecords : Stamp(i)
    \/ \E i \in 1..MaxRecords : Put(i)
    \/ TabRemoved(2)

\* one tab, one message at a time, the messages of a long conversation
BgNextTurns ==
    \/ \E i \in 1..MaxRecords : Receive(i, 0, {1}, LongTurnMessages, NoGap)
    \/ \E i \in 1..MaxRecords : ReadSession(i)
    \/ \E i \in 1..MaxRecords : HaveSession(i)
    \/ \E i \in 1..MaxRecords : ReadChainState(i)
    \/ \E i \in 1..MaxRecords : Stamp(i)
    \/ \E i \in 1..MaxRecords : Put(i)
    \/ TabRemoved(1)

BgIdle ==
    /\ chainStore = [t \in Tabs |-> NoState]
    /\ active_session_id = NullNum
    /\ sessions = {}
    /\ recordsDb = {}
    /\ handlers = [i \in 1..MaxRecords |-> BlankHandler("idle")]
    /\ closedTabs = {}
    /\ now = StartTime
    /\ nextChainSeq = 0
    /\ nextSessionSeq = 0
    /\ lastStamped = [t \in Tabs |-> NoPrev]

\* ------------------------------------------------------------------------
\* Properties of the background worker
\* ------------------------------------------------------------------------
\* the handlers that have just stamped a record of a tab
Stamped == { i \in 1..MaxRecords : handlers[i].pc = "put" /\ handlers[i].tab # NoTab }

\* C4: for the records of one tab stamped one after another, a record that
\* gets the chain_id of the record before it gets its turn_number plus 1, and
\* a record that gets another chain_id gets a chain_id not given before and
\* turn_number 1.
C4_TurnNumbers ==
    \A i \in Stamped :
        IF handlers[i].prev # NoPrev /\ handlers[i].chain_id = handlers[i].prev.chain_id
        THEN handlers[i].turn_number = handlers[i].prev.turn_number + 1
        ELSE /\ handlers[i].turn_number = 1
             /\ handlers[i].chain_id = nextChainSeq
             /\ \A r \in recordsDb : r.chain_id < handlers[i].chain_id

\* a chain reached turn 2, and the next record of the tab started a new chain
C4_Witness ==
    \E i \in Stamped :
        /\ handlers[i].prev # NoPrev
        /\ handlers[i].prev.turn_number = 2
        /\ handlers[i].chain_id # handlers[i].prev.chain_id
        /\ handlers[i].turn_number = 1

\* C5: with the handlers of record messages interleaved at their awaits, no
\* two stored records carry the same (chain_id, turn_number).
C5_NoSharedTurn ==
    \A r1, r2 \in recordsDb :
        (r1.chain_id = r2.chain_id /\ r1.turn_number = r2.turn_number)
            => r1.trace_id = r2.trace_id

\* whether shouldRotateChain held for the record handler i has just stamped
StampRotated(i) ==
    shouldRotateChain(handlers[i].state, getConversationSignals(handlers[i].record),
                      handlers[i].ts, handlers[i].sender)

\* C21: among the records stamped for one tab with the same chain_id, the
\* known user-message counts never decrease in stamping order, also when
\* records with an unknown user-message count are stamped in between.
C21_NoRegressInChain ==
    \A i \in Stamped :
        LET userCount == getConversationSignals(handlers[i].record).userCount IN
        ( /\ handlers[i].prev # NoPrev
          /\ handlers[i].chain_id = handlers[i].prev.chain_id
          /\ userCount # NullNum
          /\ handlers[i].prev.chain_user_max # NullNum )
        => userCount >= handlers[i].prev.chain_user_max

\* C22: every stamping of a record of a tab, rotating or not, replaces the
\* chain state stored for that tab by the stamped chain_id and turn_number,
\* the timestamp of the record and its signals, and leaves the chain state of
\* every other tab as it was.
C22_StateReplaced ==
    [][ \A i \in 1..MaxRecords :
          (handlers[i].pc = "stamp" /\ handlers'[i].pc = "put" /\ handlers[i].tab # NoTab) =>
            LET h == handlers[i]
                g == handlers'[i]
                signals == getConversationSignals(h.record)
                written == chainStore'[h.tab]
            IN /\ written # NoState
               /\ written.chain_id = g.chain_id
               /\ written.turn_number = g.turn_number
               /\ written.last_seen_ms = h.ts
               /\ written.last_user_count = signals.userCount
               /\ written.last_messages_count = signals.messagesCount
               /\ written.last_prompt_hash = signals.promptHash
               /\ written.ui_origin = signals.uiOrigin
               /\ \A u \in Tabs \ {h.tab} : chainStore'[u] = chainStore[u]
      ]_vars

\* the state of tab 1 was overwritten by a second turn of its chain while
\* tab 2 kept the state of its own chain
C22_Witness ==
    /\ chainStore[1] # NoState
    /\ chainStore[2] # NoState
    /\ chainStore[1].turn_number = 2
    /\ chainStore[1].last_user_count = 2
    /\ chainStore[2].chain_id # chainStore[1].chain_id
    /\ chainStore[1].last_seen_ms > chainStore[2].last_seen_ms

\* C19: a record for which shouldRotateChain is false is stamped with the
\* chain_id of the prior state and its turn_number plus 1; a record for which
\* it is true is stamped with turn_number 1 and a chain_id that differs from
\* that of the prior state and from every chain_id assigned before.
C19_StampByRotation ==
    \A i \in 1..MaxRecords : handlers[i].pc = "put" =>
        IF StampRotated(i)
        THEN /\ handlers[i].turn_number = 1
             /\ handlers[i].state # NoState =>
                    handlers[i].chain_id # handlers[i].state.chain_id
             /\ \A r \in recordsDb : r.chain_id # handlers[i].chain_id
             /\ \A t \in Tabs :
                    (lastStamped[t] # NoPrev /\ t # handlers[i].tab) =>
                        lastStamped[t].chain_id # handlers[i].chain_id
        ELSE /\ handlers[i].chain_id = handlers[i].state.chain_id
             /\ handlers[i].turn_number = handlers[i].state.turn_number + 1

\* with a prior state stored for the tab, one record was stamped into a new
\* chain and the next one continued that chain
C19_Witness ==
    \E i \in 1..MaxRecords :
        /\ handlers[i].pc = "put"
        /\ ~StampRotated(i)
        /\ handlers[i].turn_number = 2
        /\ handlers[i].chain_id = 2
        /\ \E r \in recordsDb : r.chain_id = 1 /\ r.tab = handlers[i].tab

\* the record handlers in flight for tab t
InFlightFor(t) == { i \in InFlight : handlers[i].tab = t }

\* C18: after a tab was closed, once the tab-removed handler and every record
\* handler in flight for the tab have finished, no chain state is stored for
\* the tab.
C18_NoStateAfterClose ==
    \A t \in closedTabs : InFlightFor(t) = {} => chainStore[t] = NoState

\* C17 (as stated): handling a record message writes no field of the record
\* other than chain_id and turn_number; in particular the record is stored
\* with the session_id the parser gave it, which is none.
C17_OnlyChainFields ==
    /\ \A i \in InFlight : handlers[i].sid = NullNum
    /\ \A r \in recordsDb : r.session_id = NullNum

\* C17 (amended): while a record message is handled, addRecord writes
\* session_id once, the correlator writes chain_id and turn_number once, no
\* other field of the record changes, and the record is stored with the
\* values written.
C17_WrittenOnce ==
    [][ \A i \in 1..MaxRecords :
          LET h == handlers[i]
              g == handlers'[i]
          IN /\ (h.pc \notin {"none", "done"} /\ g.pc # "done") =>
                  /\ g.record = h.record /\ g.ts = h.ts
                  /\ h.sid # NullNum => g.sid = h.sid
                  /\ h.chain_id # 0 =>
                        (g.chain_id = h.chain_id /\ g.turn_number = h.turn_number)
             /\ (h.pc = "put" /\ g.pc = "done") =>
                  /\ h.sid # NullNum /\ h.chain_id # 0 /\ h.turn_number >= 1
                  /\ recordsDb' = recordsDb \cup
                        { [ trace_id |-> i, session_id |-> h.sid, tab |-> h.tab,
                            chain_id |-> h.chain_id, turn_number |-> h.turn_number ] }
      ]_vars

\* a record of the second turn of a chain was stored with the session id
\* addRecord gave it
C17_Witness ==
    \E r \in recordsDb :
        /\ r.session_id = active_session_id
        /\ r.session_id # NullNum
        /\ r.turn_number = 2
        /\ r.trace_id = 2

\* the handlers that have just stamped a record identical to the record
\* stamped before it on the same tab
Replays ==
    { i \in 1..MaxRecords :
        /\ handlers[i].pc = "put"
        /\ handlers[i].tab # NoTab
        /\ handlers[i].prev # NoPrev
        /\ handlers[i].record = handlers[i].prev.record }
ReplayGap(i) == handlers[i].ts - handlers[i].prev.ts
ReplayRotated(i) == handlers[i].chain_id # handlers[i].prev.chain_id
ReplaySignals(i) == getConversationSignals(handlers[i].record)
\* a first turn with a prompt hash, stamped while the state of the first
\* stamping is still stored for the tab
ReplayOfHashedFirstTurn(i) ==
    /\ looksLikeFirstTurn(ReplaySignals(i))
    /\ handlers[i].record.prompt_hash.t = "string"
    /\ handlers[i].state # NoState

\* C8 (as stated): every record stamped a second time on the same tab more
\* than 2 minutes after the first starts a new chain; a first turn with an
\* unchanged prompt hash stamped a second time within 2 minutes does not.
C8_ReplayAnyRecord ==
    \A i \in Replays :
        /\ ReplayGap(i) > 120000 => ReplayRotated(i)
        /\ (ReplayGap(i) <= 120000 /\ ReplayOfHashedFirstTurn(i)) => ~ReplayRotated(i)

\* C8 (amended): a record that looks like a first turn, stamped a second time
\* on the same tab more than 2 minutes after the first, starts a new chain;
\* stamped a second time within 2 minutes, with a prompt hash and the tab's
\* state still stored, it does not.  A record that does not look like a
\* first turn, stamped a second time within 30 minutes with the tab's state
\* still stored, does not start a new chain.
C8_ReplayFirstTurn ==
    \A i \in Replays :
        /\ (ReplayGap(i) > 120000 /\ looksLikeFirstTurn(ReplaySignals(i)))
              => ReplayRotated(i)
        /\ (ReplayGap(i) <= 120000 /\ ReplayOfHashedFirstTurn(i)) => ~ReplayRotated(i)
        /\ ( /\ ReplayGap(i) <= 1800000
             /\ ~looksLikeFirstTurn(ReplaySignals(i))
             /\ handlers[i].state # NoState ) => ~ReplayRotated(i)

\* a first turn stamped again exactly 2 minutes later stayed in its chain
C8_Witness ==
    \E i \in Replays :
        /\ ReplayGap(i) = 120000
        /\ ReplayOfHashedFirstTurn(i)
        /\ ~ReplayRotated(i)
        /\ handlers[i].turn_number = 2

\* no message count and no prompt hash can be read from the record
Unextractable(record) ==
    /\ record.user.t = "undefined"
    /\ record.messages_count.t = "undefined"
    /\ record.prompt_hash.t = "undefined"

\* C9: a record whose signals cannot be extracted gets a new chain_id and
\* turn_number 1, even when a prior state is stored for the tab.
C9_MissingSignalsRotate ==
    \A i \in 1..MaxRecords :
        ( /\ handlers[i].pc = "put"
          /\ Unextractable(handlers[i].record)
          /\ handlers[i].state # NoState )
        => /\ handlers[i].turn_number = 1
           /\ handlers[i].chain_id # handlers[i].state.chain_id

\* ------------------------------------------------------------------------
\* Aggregation: buildDashboardStats and buildScenarioComparisons (background.js)
\* ------------------------------------------------------------------------
\* Of the averaged metrics only predicted_tps is carried: the others are
\* accumulated and rounded by the same statements.  Numbers are integers, so
\* the sums do not depend on the order of the additions.

\* the elements of a set of integers, ascending
SeqOfSet(S) ==
    [ p \in 1..Cardinality(S) |->
        CHOOSE x \in S : Cardinality({ y \in S : y < x }) = p - 1 ]

RECURSIVE SumSeq(_)
SumSeq(ns) == IF ns = <<>> THEN 0 ELSE Head(ns) + SumSeq(Tail(ns))

\* the keys of a Map filled in the order ks: each key once, in the order of
\* its first set()
FirstSeenKeys(ks) ==
    LET first == SeqOfSet({ i \in 1..Len(ks) : \A j \in 1..(i - 1) : ks[j] # ks[i] })
    IN [ p \in 1..Len(first) |-> ks[first[p]] ]

\* the elements of s at which ks has the key k, in order
WithKey(s, ks, k) ==
    LET at == SeqOfSet({ i \in 1..Len(s) : ks[i] = k })
    IN [ p \in 1..Len(at) |-> s[at[p]] ]

\* Array.prototype.sort of s with a comparator that puts an element with the
\* greater pair of numbers in by first: by[i][1] is compared first, then
\* by[i][2]; the sort is stable
StableSort(s, by) ==
    LET Before(i, j) == \/ by[i][1] > by[j][1]
                        \/ (by[i][1] = by[j][1] /\ by[i][2] > by[j][2])
        Ahead(i) == { j \in 1..Len(s) :
                        j # i /\ (Before(j, i) \/ (~Before(i, j) /\ j < i)) }
    IN [ p \in 1..Len(s) |-> s[CHOOSE i \in 1..Len(s) : Cardinality(Ahead(i)) = p - 1] ]

\* String.prototype.localeCompare on the labels and model names that occur
LocaleOrder ==
    << "0", "0-128", "0B", "1", "1025+", "129-512", "1B-10KB", "2", "3-4", "5+",
       "513-1024", "m1", "m2", "unknown" >>
LocaleRank(x) == CHOOSE i \in 1..Len(LocaleOrder) : LocaleOrder[i] = x

\* round2(average(sum, count)) in hundredths, for the values ns that passed
\* toFiniteNumber: null when there is none
round2Average(ns) ==
    LET fin == SelectSeq(ns, LAMBDA x : x # NullNum)
    IN IF Len(fin) = 0 THEN NullNum
       ELSE (200 * SumSeq(fin) + Len(fin)) \div (2 * Len(fin))

\* x || 0
NumOrZero(x) == IF x = NullNum THEN 0 ELSE x

\* x || fallback, for a label
LabelOr(x, fallback) == IF x = NullStr \/ x = "" THEN fallback ELSE x

\* the greatest of the values that passed toFiniteNumber, or null
LastSeenAt(ns) ==
    LET fin == { ns[i] : i \in 1..Len(ns) } \ { NullNum }
    IN IF fin = {} THEN NullNum ELSE CHOOSE x \in fin : \A y \in fin : y <= x

\* the values of predicted_tps and of captured_at_ms of the records rs
PredictedTps(rs) == [ i \in 1..Len(rs) |-> rs[i].predicted_tps ]
CapturedAt(rs) == [ i \in 1..Len(rs) |-> rs[i].captured_at_ms ]

\* a response without client_timing
NoClientDurations ==
    [ duration_request_to_first_stream_chunk_ms |-> NullNum,
      duration_request_to_headers_ms |-> NullNum,
      duration_headers_to_first_stream_chunk_ms |-> NullNum,
      duration_first_stream_chunk_to_stop_ms |-> NullNum,
      duration_request_to_stop_ms |-> NullNum ]

\* records as the aggregation reads them
TextRecord ==
    [ entry |-> "object", has_req |-> TRUE, has_resp |-> TRUE,
      has_document |-> FALSE, has_images |-> FALSE, has_files |-> FALSE,
      chain_id |-> "c1", turn_number |-> 1, finish_reason |-> "stop", file_count |-> 0,
      timings |-> [ prompt_n |-> 10, predicted_n |-> 100, prompt_tps |-> 50,
                    cache_n |-> 0, prompt_ms |-> 200, predicted_ms |-> 1000 ],
      client_timing |-> [ duration_request_to_first_stream_chunk_ms |-> 220,
                          duration_request_to_headers_ms |-> 40,
                          duration_headers_to_first_stream_chunk_ms |-> 180,
                          duration_first_stream_chunk_to_stop_ms |-> 980,
                          duration_request_to_stop_ms |-> 1200 ],
      derived |-> [ reasoning_ms |-> 0, content_ms |-> 1000,
                    reasoning_n |-> 0, content_n |-> 100 ],
      text_bytes_total |-> 100, output_chars_estimate |-> 400,
      req_model |-> "m1", resp_model |-> "m1", captured_at_ms |-> 1000,
      predicted_tps |-> 10, input_mode |-> "text_only", file_size_bucket |-> "0B",
      file_kind_set |-> "none", image_size_bucket |-> "0B", image_count |-> 0,
      current_user_text_size_bucket |-> "1B-10KB", runtime_bucket |-> NullStr,
      stop_reason_category |-> "completed", output_tokens_estimate |-> 100,
      file_bytes_total |-> 0, current_user_text_bytes |-> 100, prompt_hash |-> "h1" ]

\* the same prompt sent with a file and images; a longer, faster answer
FileRecord ==
    [ TextRecord EXCEPT !.captured_at_ms = 2000, !.predicted_tps = 25,
        !.input_mode = "text+file+image", !.file_size_bucket = "1B-10KB",
        !.file_kind_set = "pdf", !.image_size_bucket = "1B-10KB", !.image_count = 3,
        !.current_user_text_size_bucket = "0B", !.runtime_bucket = "gpu_offload",
        !.stop_reason_category = "truncated_length", !.output_tokens_estimate = 600,
        !.file_bytes_total = 2000, !.has_document = TRUE, !.has_images = TRUE,
        !.has_files = TRUE, !.file_count = 1 ]

\* a record of another model, named by the response only
OtherModelRecord ==
    [ TextRecord EXCEPT !.req_model = NullStr, !.resp_model = "m2",
        !.captured_at_ms = 3000, !.prompt_hash = "h2",
        !.client_timing = NoClientDurations ]

\* a faster answer of the other model
FastOtherRecord ==
    [ OtherModelRecord EXCEPT !.captured_at_ms = 4000, !.predicted_tps = 25 ]

\* a record whose request and response carry none of the fields read
BareRecord ==
    [ entry |-> "object", has_req |-> TRUE, has_resp |-> TRUE,
      has_document |-> FALSE, has_images |-> FALSE, has_files |-> FALSE,
      chain_id |-> NullStr, turn_number |-> NullNum, finish_reason |-> NullStr,
      file_count |-> NullNum,
      timings |-> [ prompt_n |-> NullNum, predicted_n |-> NullNum, prompt_tps |-> NullNum,
                    cache_n |-> NullNum, prompt_ms |-> NullNum, predicted_ms |-> NullNum ],
      client_timing |-> NoClientDurations,
      derived |-> [ reasoning_ms |-> NullNum, content_ms |-> NullNum,
                    reasoning_n |-> NullNum, content_n |-> NullNum ],
      text_bytes_total |-> NullNum, output_chars_estimate |-> NullNum,
      req_model |-> NullStr, resp_model |-> NullStr,
      captured_at_ms |-> NullNum, predicted_tps |-> NullNum, input_mode |-> NullStr,
      file_size_bucket |-> NullStr, file_kind_set |-> NullStr,
      image_size_bucket |-> NullStr, image_count |-> NullNum,
      current_user_text_size_bucket |-> NullStr, runtime_bucket |-> NullStr,
      stop_reason_category |-> NullStr, output_tokens_estimate |-> NullNum,
      file_bytes_total |-> NullNum, current_user_text_bytes |-> NullNum,
      prompt_hash |-> NullStr ]

\* a record without a response
UncleanRecord == [ BareRecord EXCEPT !.has_resp = FALSE ]

\* a record without a request
NoReqRecord == [ TextRecord EXCEPT !.has_req = FALSE, !.req_model = NullStr ]

\* an entry of the array that is null
NullEntry == [ BareRecord EXCEPT !.entry = "null", !.has_req = FALSE, !.has_resp = FALSE ]

AggRecordSet == { TextRecord, FileRecord, OtherModelRecord, BareRecord, UncleanRecord }

\* r && r.resp && r.req
IsClean(r) == r.entry = "object" /\ r.has_resp /\ r.has_req

\* the filter as it would be if it did not ask for the request
CleanRecordsWithResp(records) ==
    SelectSeq(records, LAMBDA r : r.entry = "object" /\ r.has_resp)

\* records.filter((r) => r && r.resp && r.req)
CleanRecords(records) == SelectSeq(records, IsClean)

\* round2(safePct(numerator, denominator)) in hundredths of a percent
round2SafePct(numerator, denominator) ==
    IF denominator <= 0 THEN 0
    ELSE LET raw == (20000 * numerator + denominator) \div (2 * denominator)
         IN IF raw < 0 THEN 0 ELSE IF raw > 10000 THEN 10000 ELSE raw

\* the records of rs with r?.req?.has_document === true, has_images === true
DocCount(rs) == Len(SelectSeq(rs, LAMBDA r : r.has_document))
ImageCount(rs) == Len(SelectSeq(rs, LAMBDA r : r.has_images))

\* r?.req?.model || r?.resp?.model || "unknown"
ModelOf(r) == LabelOr(r.req_model, LabelOr(r.resp_model, "unknown"))
ModelsOf(rs) == [ i \in 1..Len(rs) |-> ModelOf(rs[i]) ]

\* a ?? b on numbers
Coalesce(a, b) == IF a # NullNum THEN a ELSE b

\* buildDashboardRecords(records): the compact rows, sorted by
\* (a.captured_at_ms || 0) - (b.captured_at_ms || 0)
buildDashboardRecords(records) ==
    LET kept == CleanRecords(records)
        out == [ i \in 1..Len(kept) |->
                  LET r == kept[i] IN
                  [ captured_at_ms |-> r.captured_at_ms,
                    chain_id |-> r.chain_id,
                    turn_number |-> r.turn_number,
                    model |-> ModelOf(r),
                    input_mode |-> LabelOr(r.input_mode, "unknown"),
                    has_images |-> r.has_images,
                    has_files |-> r.has_files,
                    finish_reason |-> r.finish_reason,
                    prompt_n |-> r.timings.prompt_n,
                    predicted_n |-> r.timings.predicted_n,
                    prompt_tps |-> r.timings.prompt_tps,
                    predicted_tps |-> r.predicted_tps,
                    cache_n |-> r.timings.cache_n,
                    ttft_ms |-> Coalesce(r.client_timing.duration_request_to_first_stream_chunk_ms,
                                         r.timings.prompt_ms),
                    request_to_headers_ms |-> r.client_timing.duration_request_to_headers_ms,
                    headers_to_first_stream_chunk_ms |->
                        r.client_timing.duration_headers_to_first_stream_chunk_ms,
                    first_stream_chunk_to_stop_ms |->
                        r.client_timing.duration_first_stream_chunk_to_stop_ms,
                    request_to_stop_ms |-> r.client_timing.duration_request_to_stop_ms,
                    reasoning_ms |-> r.derived.reasoning_ms,
                    content_ms |-> r.derived.content_ms,
                    reasoning_n |-> r.derived.reasoning_n,
                    content_n |-> r.derived.content_n,
                    text_bytes_total |-> r.text_bytes_total,
                    file_bytes_total |-> r.file_bytes_total,
                    output_tokens_estimate |-> r.output_tokens_estimate,
                    output_chars_estimate |-> r.output_chars_estimate,
                    prompt_hash |-> r.prompt_hash ] ]
    IN StableSort(out, [ i \in 1..Len(out) |-> <<0 - NumOrZero(out[i].captured_at_ms), 0>> ])

\* the sort of the model rows as it would be if it compared completions only
sortModelsByCompletions(rows) ==
    StableSort(rows, [ p \in 1..Len(rows) |-> <<rows[p].completions, 0>> ])

\* .sort((a, b) => b.completions - a.completions
\*                 || (b.avg_predicted_tps || 0) - (a.avg_predicted_tps || 0))
sortModels(rows) ==
    StableSort(rows, [ p \in 1..Len(rows) |->
                         <<rows[p].completions, NumOrZero(rows[p].avg_predicted_tps)>> ])

\* buildDashboardStats(records)
buildDashboardStats(records) ==
    LET cleanRecords == CleanRecords(records)
        perModel == FirstSeenKeys(ModelsOf(cleanRecords))
        Of(model) == WithKey(cleanRecords, ModelsOf(cleanRecords), model)
        rows == [ p \in 1..Len(perModel) |->
                    [ model |-> perModel[p],
                      completions |-> Len(Of(perModel[p])),
                      avg_predicted_tps |-> round2Average(PredictedTps(Of(perModel[p]))),
                      doc_request_pct |->
                          round2SafePct(DocCount(Of(perModel[p])), Len(Of(perModel[p]))),
                      image_request_pct |->
                          round2SafePct(ImageCount(Of(perModel[p])), Len(Of(perModel[p]))),
                      last_seen_at_ms |-> LastSeenAt(CapturedAt(Of(perModel[p]))) ] ]
        models == sortModels(rows)
    IN [ summary |->
           [ total_completions |-> Len(cleanRecords),
             distinct_models |-> Len(models),
             avg_predicted_tps |-> round2Average(PredictedTps(cleanRecords)),
             last_completion_at_ms |-> LastSeenAt(CapturedAt(cleanRecords)),
             document_attached_requests_pct |->
                 round2SafePct(DocCount(cleanRecords), Len(cleanRecords)),
             image_attached_requests_pct |->
                 round2SafePct(ImageCount(cleanRecords), Len(cleanRecords)) ],
         models |-> models ]

\* finalizeScenarioBuckets as it would be if every breakdown were sorted by count
finalizeScenarioBucketsByCount(rows, sortByCount) ==
    StableSort(rows, [ p \in 1..Len(rows) |->
                         <<rows[p].count, NumOrZero(rows[p].avg_predicted_tps)>> ])

\* finalizeScenarioBuckets as it would be if the rows were cut to the first
finalizeScenarioBucketsFirst(rows, sortByCount) ==
    LET sorted ==
          IF sortByCount
          THEN StableSort(rows, [ p \in 1..Len(rows) |->
                  <<rows[p].count, NumOrZero(rows[p].avg_predicted_tps)>> ])
          ELSE StableSort(rows, [ p \in 1..Len(rows) |->
                  <<0 - LocaleRank(rows[p].label), 0>> ])
    IN SubSeq(sorted, 1, IF Len(sorted) < 1 THEN Len(sorted) ELSE 1)

\* finalizeScenarioBuckets(map, sortByCount): the rows of the buckets, sorted
\* by count and avg_predicted_tps descending, or by label
finalizeScenarioBuckets(rows, sortByCount) ==
    IF sortByCount
    THEN StableSort(rows, [ p \in 1..Len(rows) |->
            <<rows[p].count, NumOrZero(rows[p].avg_predicted_tps)>> ])
    ELSE StableSort(rows, [ p \in 1..Len(rows) |->
            <<0 - LocaleRank(rows[p].label), 0>> ])

\* groupScenario(records, keyFn, sortByCount); labels[i] is keyFn(records[i])
groupScenario(records, labels, sortByCount) ==
    LET ks == [ i \in 1..Len(labels) |-> LabelOr(labels[i], "unknown") ]
        keys == FirstSeenKeys(ks)
        rows == [ p \in 1..Len(keys) |->
                    [ label |-> keys[p],
                      count |-> Len(WithKey(records, ks, keys[p])),
                      avg_predicted_tps |->
                          round2Average(PredictedTps(WithKey(records, ks, keys[p]))) ] ]
    IN finalizeScenarioBuckets(rows, sortByCount)

\* the key of the image_count_bucket breakdown
ImageCountLabel(r) ==
    LET n == r.image_count IN
    IF n = NullNum THEN "unknown"
    ELSE IF n <= 0 THEN "0"
    ELSE IF n = 1 THEN "1"
    ELSE IF n = 2 THEN "2"
    ELSE IF n <= 4 THEN "3-4"
    ELSE "5+"

\* the key of the output_length_bucket breakdown
OutputLengthLabel(r) ==
    LET n == r.output_tokens_estimate IN
    IF n = NullNum THEN "unknown"
    ELSE IF n <= 128 THEN "0-128"
    ELSE IF n <= 512 THEN "129-512"
    ELSE IF n <= 1024 THEN "513-1024"
    ELSE "1025+"

\* the file_vs_text table
FileVsText(modelRecords) ==
    LET rows == [ i \in 1..Len(modelRecords) |->
                   [ captured_at_ms |-> modelRecords[i].captured_at_ms,
                     input_mode |-> LabelOr(modelRecords[i].input_mode, "unknown"),
                     file_bytes_total |-> modelRecords[i].file_bytes_total,
                     current_user_text_bytes |-> modelRecords[i].current_user_text_bytes,
                     predicted_tps |-> modelRecords[i].predicted_tps ] ]
        kept == SelectSeq(rows, LAMBDA x :
                   x.file_bytes_total # NullNum \/ x.current_user_text_bytes # NullNum)
        sorted == StableSort(kept, [ p \in 1..Len(kept) |->
                                       <<NumOrZero(kept[p].file_bytes_total), 0>> ])
    IN SubSeq(sorted, 1, IF Len(sorted) < 50 THEN Len(sorted) ELSE 50)

\* .slice(0, 30) of the prompt_hash_controls rows
PROMPT_HASH_ROWS == 30

\* the table as it would be without .filter((x) => x.inputModes.size > 1)
PromptHashControlsUnfiltered(modelRecords) ==
    LET hashed == SelectSeq(modelRecords, LAMBDA r : r.prompt_hash # NullStr)
        hs == [ i \in 1..Len(hashed) |-> hashed[i].prompt_hash ]
        Of(hash) == WithKey(hashed, hs, hash)
        Modes(hash) == { LabelOr(Of(hash)[i].input_mode, "unknown") : i \in 1..Len(Of(hash)) }
        mixed == FirstSeenKeys(hs)
        rows == [ p \in 1..Len(mixed) |->
                    [ prompt_hash_prefix |-> mixed[p],
                      requests |-> Len(Of(mixed[p])),
                      scenario_count |-> Cardinality(Modes(mixed[p])),
                      scenarios |-> Modes(mixed[p]),
                      avg_predicted_tps |-> round2Average(PredictedTps(Of(mixed[p]))) ] ]
        sorted == StableSort(rows, [ p \in 1..Len(rows) |-> <<rows[p].requests, 0>> ])
    IN SubSeq(sorted, 1, IF Len(sorted) < PROMPT_HASH_ROWS THEN Len(sorted)
                         ELSE PROMPT_HASH_ROWS)

\* the prompt_hash_controls table
PromptHashControls(modelRecords) ==
    LET hashed == SelectSeq(modelRecords, LAMBDA r : r.prompt_hash # NullStr)
        hs == [ i \in 1..Len(hashed) |-> hashed[i].prompt_hash ]
        Of(hash) == WithKey(hashed, hs, hash)
        Modes(hash) == { LabelOr(Of(hash)[i].input_mode, "unknown") : i \in 1..Len(Of(hash)) }
        mixed == SelectSeq(FirstSeenKeys(hs), LAMBDA h : Cardinality(Modes(h)) > 1)
        rows == [ p \in 1..Len(mixed) |->
                    [ prompt_hash_prefix |-> mixed[p],
                      requests |-> Len(Of(mixed[p])),
                      scenario_count |-> Cardinality(Modes(mixed[p])),
                      scenarios |-> Modes(mixed[p]),
                      avg_predicted_tps |-> round2Average(PredictedTps(Of(mixed[p]))) ] ]
        sorted == StableSort(rows, [ p \in 1..Len(rows) |-> <<rows[p].requests, 0>> ])
    IN SubSeq(sorted, 1, IF Len(sorted) < PROMPT_HASH_ROWS THEN Len(sorted)
                         ELSE PROMPT_HASH_ROWS)

\* the effective model as it would be if selectedModel were not looked at
EffectiveModelMostFrequent(selectedModel, modelOptions) ==
    IF modelOptions = <<>> THEN NullStr ELSE modelOptions[1].model

\* selectedModel && modelCounts.has(selectedModel)
\*     ? selectedModel : (modelOptions[0]?.model || null)
EffectiveModel(selectedModel, modelOptions) ==
    IF /\ selectedModel # NullStr
       /\ \E p \in 1..Len(modelOptions) : modelOptions[p].model = selectedModel
    THEN selectedModel
    ELSE IF modelOptions = <<>> THEN NullStr ELSE modelOptions[1].model

\* buildScenarioComparisons(records, selectedModel)
buildScenarioComparisons(records, selectedModel) ==
    LET clean == CleanRecords(records)
        names == FirstSeenKeys(ModelsOf(clean))
        counted == [ p \in 1..Len(names) |->
                       [ model |-> names[p],
                         count |-> Len(WithKey(clean, ModelsOf(clean), names[p])) ] ]
        modelOptions ==
            StableSort(counted, [ p \in 1..Len(counted) |->
                          <<counted[p].count, 0 - LocaleRank(counted[p].model)>> ])
        effectiveModel == EffectiveModel(selectedModel, modelOptions)
        modelRecords ==
            IF effectiveModel # NullStr
            THEN WithKey(clean, ModelsOf(clean), effectiveModel)
            ELSE <<>>
        n == Len(modelRecords)
    IN [ selected_model |-> effectiveModel,
         model_options |-> modelOptions,
         selected_model_record_count |-> Len(modelRecords),
         breakdowns |->
           [ input_mode |->
               groupScenario(modelRecords,
                   [ i \in 1..n |-> modelRecords[i].input_mode ], TRUE),
             file_size_bucket |->
               groupScenario(modelRecords,
                   [ i \in 1..n |-> modelRecords[i].file_size_bucket ], FALSE),
             file_kind_set |->
               groupScenario(modelRecords,
                   [ i \in 1..n |-> LabelOr(modelRecords[i].file_kind_set, "none") ], TRUE),
             image_size_bucket |->
               groupScenario(modelRecords,
                   [ i \in 1..n |-> modelRecords[i].image_size_bucket ], FALSE),
             image_count_bucket |->
               groupScenario(modelRecords,
                   [ i \in 1..n |-> ImageCountLabel(modelRecords[i]) ], FALSE),
             current_user_text_size_bucket |->
               groupScenario(modelRecords,
                   [ i \in 1..n |-> modelRecords[i].current_user_text_size_bucket ], FALSE),
             runtime_bucket |->
               groupScenario(modelRecords,
                   [ i \in 1..n |->
                       LabelOr(modelRecords[i].runtime_bucket, "default_or_unknown") ], TRUE),
             stop_reason_category |->
               groupScenario(modelRecords,
                   [ i \in 1..n |-> modelRecords[i].stop_reason_category ], TRUE),
             output_length_bucket |->
               groupScenario(modelRecords,
                   [ i \in 1..n |-> OutputLengthLabel(modelRecords[i]) ], FALSE) ],
         comparisons |->
           [ file_vs_text |-> FileVsText(modelRecords),
             prompt_hash_controls |-> PromptHashControls(modelRecords) ] ]

\* the record arrays handed to the two functions: up to MaxAggRecords records
AggInputs == UNION { [1..n -> AggRecordSet] : n \in 0..MaxAggRecords }

\* arrays that also have entries that are null or lack the request, and a
\* faster record of the other model
StatsRecordSet == AggRecordSet \cup { NullEntry, NoReqRecord, FastOtherRecord }
StatsInputs == UNION { [1..n -> StatsRecordSet] : n \in 0..MaxAggRecords }

\* the rearrangements of an array
Shuffles(records) ==
    LET n == Len(records)
        perms == { f \in [1..n -> 1..n] : \A i, j \in 1..n : f[i] = f[j] => i = j }
    IN { [ i \in 1..n |-> records[f[i]] ] : f \in perms }

\* the selectedModel argument: none, a model with records, a model without
SelectedModels == { NullStr, "m1", "m2", "m9" }

NoResult == [ absent |-> "result" ]

AggInit ==
    /\ aggRecords \in AggInputs
    /\ aggShuffled \in Shuffles(aggRecords)
    /\ aggSelected \in SelectedModels
    /\ aggStats = NoResult
    /\ aggStatsShuffled = NoResult
    /\ aggScenario = NoResult
    /\ aggScenarioShuffled = NoResult
    /\ aggRows = NoResult
    /\ aggRowsShuffled = NoResult

\* the same prompt sent once as text and once with a file, for the prompts
\* 1..k, each with its own hash
HashedPairs(k) ==
    [ i \in 1..(2 * k) |->
        IF i % 2 = 1
        THEN [ TextRecord EXCEPT !.prompt_hash = ToString((i + 1) \div 2) ]
        ELSE [ FileRecord EXCEPT !.prompt_hash = ToString(i \div 2) ] ]

\* one more request of the last prompt
LateHashRecord ==
    [ TextRecord EXCEPT !.prompt_hash = ToString(PROMPT_HASH_ROWS + MaxExtraHashes) ]

\* arrays with prompt hashes of one model: the pairs of a few prompts and up
\* to MaxTailRecords records after them, and the pairs of PROMPT_HASH_ROWS
\* prompts and more, alone or with one more request of the last prompt
HashInputs ==
    { HashedPairs(k) \o tail :
        k \in 0..MaxExtraHashes,
        tail \in UNION { [1..n -> { TextRecord, FileRecord, BareRecord, LateHashRecord }] :
                           n \in 0..MaxTailRecords } }
    \cup
    { HashedPairs(k) \o tail :
        k \in PROMPT_HASH_ROWS..(PROMPT_HASH_ROWS + MaxExtraHashes),
        tail \in { <<>>, <<LateHashRecord>> } }

HashInit ==
    /\ aggRecords \in HashInputs
    /\ aggShuffled = aggRecords
    /\ aggSelected \in { NullStr, "m9" }
    /\ aggStats = NoResult
    /\ aggStatsShuffled = NoResult
    /\ aggScenario = NoResult
    /\ aggScenarioShuffled = NoResult
    /\ aggRows = NoResult
    /\ aggRowsShuffled = NoResult

\* one array, handed to the functions as it is
StatsInit ==
    /\ aggRecords \in StatsInputs
    /\ aggShuffled = aggRecords
    /\ aggSelected \in SelectedModels
    /\ aggStats = NoResult
    /\ aggStatsShuffled = NoResult
    /\ aggScenario = NoResult
    /\ aggScenarioShuffled = NoResult
    /\ aggRows = NoResult
    /\ aggRowsShuffled = NoResult

AggIdle ==
    /\ aggRecords = <<>>
    /\ aggShuffled = <<>>
    /\ aggSelected = NullStr
    /\ aggStats = NoResult
    /\ aggStatsShuffled = NoResult
    /\ aggScenario = NoResult
    /\ aggScenarioShuffled = NoResult
    /\ aggRows = NoResult
    /\ aggRowsShuffled = NoResult

\* the dashboard asks for the statistics of the records, in both orders
CallBuildDashboardStats ==
    /\ aggStats = NoResult
    /\ aggStats' = buildDashboardStats(aggRecords)
    /\ aggStatsShuffled' = buildDashboardStats(aggShuffled)
    /\ UNCHANGED <<aggRecords, aggShuffled, aggSelected, aggScenario, aggScenarioShuffled,
                   aggRows, aggRowsShuffled>>

\* the dashboard asks for the scenario comparisons, in both orders
CallBuildScenarioComparisons ==
    /\ aggScenario = NoResult
    /\ aggScenario' = buildScenarioComparisons(aggRecords, aggSelected)
    /\ aggScenarioShuffled' = buildScenarioComparisons(aggShuffled, aggSelected)
    /\ UNCHANGED <<aggRecords, aggShuffled, aggSelected, aggStats, aggStatsShuffled,
                   aggRows, aggRowsShuffled>>

\* the call as it would be if the rows were sorted in the array handed in
CallBuildDashboardRecordsInPlace ==
    /\ aggRows = NoResult
    /\ aggRows' = [ records_compact |-> buildDashboardRecords(aggRecords) ]
    /\ aggRowsShuffled' = [ records_compact |-> buildDashboardRecords(aggShuffled) ]
    /\ aggRecords' = StableSort(aggRecords,
                        [ i \in 1..Len(aggRecords) |->
                            <<0 - NumOrZero(aggRecords[i].captured_at_ms), 0>> ])
    /\ UNCHANGED <<aggShuffled, aggSelected, aggStats, aggStatsShuffled,
                   aggScenario, aggScenarioShuffled>>

\* the dashboard asks for the compact rows of the records, twice
CallBuildDashboardRecords ==
    /\ aggRows = NoResult
    /\ aggRows' = [ records_compact |-> buildDashboardRecords(aggRecords) ]
    /\ aggRowsShuffled' = [ records_compact |-> buildDashboardRecords(aggShuffled) ]
    /\ UNCHANGED <<aggRecords, aggShuffled, aggSelected, aggStats, aggStatsShuffled,
                   aggScenario, aggScenarioShuffled>>

AggNext == CallBuildDashboardStats \/ CallBuildScenarioComparisons

\* the get_dashboard_stats message: the three functions, one after the other
StatsNext ==
    \/ CallBuildDashboardStats
    \/ aggStats # NoResult /\ CallBuildScenarioComparisons
    \/ aggScenario # NoResult /\ CallBuildDashboardRecords

\* ------------------------------------------------------------------------
\* Properties of the aggregation
\* ------------------------------------------------------------------------
\* C14: for every array of records and every rearrangement of it,
\* buildDashboardStats returns the same summary and the same models in the
\* same order, and buildScenarioComparisons the same selected_model,
\* model_options, breakdown rows and comparison rows in the same order.
C14_OrderIndependent ==
    /\ aggStats # NoResult => aggStatsShuffled = aggStats
    /\ aggScenario # NoResult => aggScenarioShuffled = aggScenario

\* the breakdowns of the result, by dimension
Breakdowns == aggScenario.breakdowns
CountSum(rows) == SumSeq([ i \in 1..Len(rows) |-> rows[i].count ])

\* the clean records of the selected model, counted on the argument
SelectedModelRecords ==
    { i \in 1..Len(aggRecords) :
        IsClean(aggRecords[i]) /\ ModelOf(aggRecords[i]) = aggScenario.selected_model }

\* C15: in the result of buildScenarioComparisons there are nine breakdowns,
\* and in each of them the counts of the buckets sum to
\* selected_model_record_count, the number of clean records of the selected
\* model.
C15_BucketCountsSum ==
    aggScenario # NoResult =>
        /\ Cardinality(DOMAIN Breakdowns) = 9
        /\ aggScenario.selected_model_record_count = Cardinality(SelectedModelRecords)
        /\ \A d \in DOMAIN Breakdowns :
              CountSum(Breakdowns[d]) = aggScenario.selected_model_record_count

\* of three records one was not clean, and the two of the selected model
\* fell into two buckets of every dimension
C15_Witness ==
    /\ aggScenario # NoResult
    /\ aggScenario.selected_model_record_count = 2
    /\ \E i \in 1..Len(aggRecords) : aggRecords[i] = UncleanRecord
    /\ \A d \in DOMAIN Breakdowns : Len(Breakdowns[d]) >= 2

ByCountDescending(rows) ==
    \A i, j \in 1..Len(rows) : i < j =>
        \/ rows[i].count > rows[j].count
        \/ /\ rows[i].count = rows[j].count
           /\ NumOrZero(rows[i].avg_predicted_tps) >= NumOrZero(rows[j].avg_predicted_tps)
ByLabel(rows) ==
    \A i, j \in 1..Len(rows) : i < j =>
        LocaleRank(rows[i].label) < LocaleRank(rows[j].label)

\* C16 (as stated): the buckets of file_size_bucket, image_size_bucket and
\* current_user_text_size_bucket are ordered by label, those of every other
\* breakdown, image_count_bucket and output_length_bucket among them, by count
\* descending.
C16_ThreeByLabel ==
    aggScenario # NoResult =>
        \A d \in DOMAIN Breakdowns :
            IF d \in { "file_size_bucket", "image_size_bucket",
                       "current_user_text_size_bucket" }
            THEN ByLabel(Breakdowns[d])
            ELSE ByCountDescending(Breakdowns[d])

\* C16 (amended): the buckets of file_size_bucket, image_size_bucket,
\* image_count_bucket, current_user_text_size_bucket and output_length_bucket
\* are ordered by label, those of the four other breakdowns by count
\* descending, equal counts by avg_predicted_tps descending.
C16_FiveByLabel ==
    aggScenario # NoResult =>
        \A d \in DOMAIN Breakdowns :
            IF d \in { "file_size_bucket", "image_size_bucket", "image_count_bucket",
                       "current_user_text_size_bucket", "output_length_bucket" }
            THEN ByLabel(Breakdowns[d])
            ELSE ByCountDescending(Breakdowns[d])

\* the image_count_bucket and output_length_bucket rows came out with the
\* smaller bucket first, and the input_mode rows with the larger first
C16_Witness ==
    /\ aggScenario # NoResult
    /\ Len(Breakdowns.image_count_bucket) = 2
    /\ Breakdowns.image_count_bucket[1].count < Breakdowns.image_count_bucket[2].count
    /\ Breakdowns.output_length_bucket[1].count < Breakdowns.output_length_bucket[2].count
    /\ Breakdowns.input_mode[1].count > Breakdowns.input_mode[2].count

\* ------------------------------------------------------------------------
\* Client timing of one captured request (injected.js)
\* ------------------------------------------------------------------------
\* Date.now(): the wall clock; nothing in the code makes two readings ordered
Clock == 0..MaxClock

\* timingContext = {} : the default of the fourth parameter
NoContext == [request_start_ms |-> Undefined, response_headers_ms |-> Undefined]

\* typeof x === "number" ? x : null
NumberOrNull(x) == IF x.t = "number" THEN x.v ELSE NullNum

\* (a !== null && b !== null) ? Math.max(0, b - a) : null
ClampedDelta(a, b) ==
    IF a # NullNum /\ b # NullNum THEN Max0(b - a) ELSE NullNum

\* the same without Math.max(0, ...)
ClientTimingNoClamp(context, firstChunkAtMs, stopAtMs, nowMs) ==
    LET requestStart == NumberOrNull(context.request_start_ms)
        responseHeaders == NumberOrNull(context.response_headers_ms)
        stopMs == IF stopAtMs # NullNum THEN stopAtMs ELSE nowMs
        Delta(a, b) == IF a # NullNum /\ b # NullNum THEN b - a ELSE NullNum
    IN  [ request_start_ms |-> requestStart,
          response_headers_ms |-> responseHeaders,
          first_stream_chunk_ms |-> firstChunkAtMs,
          stop_chunk_ms |-> stopMs,
          duration_request_to_headers_ms |-> Delta(requestStart, responseHeaders),
          duration_request_to_first_stream_chunk_ms |-> Delta(requestStart, firstChunkAtMs),
          duration_headers_to_first_stream_chunk_ms |-> Delta(responseHeaders, firstChunkAtMs),
          duration_first_stream_chunk_to_stop_ms |-> Delta(firstChunkAtMs, stopMs),
          duration_headers_to_stop_ms |-> Delta(responseHeaders, stopMs),
          duration_request_to_stop_ms |-> Delta(requestStart, stopMs) ]

\* the client_timing object of the record; nowMs is the Date.now() of
\* `typeof stopChunkAtMs === "number" ? stopChunkAtMs : Date.now()`
ClientTiming(context, firstChunkAtMs, stopAtMs, nowMs) ==
    LET requestStart == NumberOrNull(context.request_start_ms)
        responseHeaders == NumberOrNull(context.response_headers_ms)
        stopMs == IF stopAtMs # NullNum THEN stopAtMs ELSE nowMs
    IN  [ request_start_ms |-> requestStart,
          response_headers_ms |-> responseHeaders,
          first_stream_chunk_ms |-> firstChunkAtMs,
          stop_chunk_ms |-> stopMs,
          duration_request_to_headers_ms |-> ClampedDelta(requestStart, responseHeaders),
          duration_request_to_first_stream_chunk_ms |-> ClampedDelta(requestStart, firstChunkAtMs),
          duration_headers_to_first_stream_chunk_ms |-> ClampedDelta(responseHeaders, firstChunkAtMs),
          duration_first_stream_chunk_to_stop_ms |-> ClampedDelta(firstChunkAtMs, stopMs),
          duration_headers_to_stop_ms |-> ClampedDelta(responseHeaders, stopMs),
          duration_request_to_stop_ms |-> ClampedDelta(requestStart, stopMs) ]

NoClientTiming == [absent |-> "client_timing"]

TimInit ==
    /\ timPc = "wrapper"
    /\ timingContext = NoContext
    /\ firstStreamChunkAtMs = NullNum
    /\ stopChunkAtMs = NullNum
    /\ client_timing = NoClientTiming

TimIdle ==
    /\ timPc = "idle"
    /\ timingContext = NoContext
    /\ firstStreamChunkAtMs = NullNum
    /\ stopChunkAtMs = NullNum
    /\ client_timing = NoClientTiming

\* the fetch wrapper: const requestStartMs = shouldCapture ? Date.now() : null
WrapperRequest(t) ==
    /\ timPc = "wrapper"
    /\ timingContext' = [timingContext EXCEPT !.request_start_ms = Num(t)]
    /\ timPc' = "await"
    /\ UNCHANGED <<firstStreamChunkAtMs, stopChunkAtMs, client_timing>>

\* after await originalFetch: const responseHeadersMs = Date.now(); the
\* parser is called with both marks
WrapperHeaders(t) ==
    /\ timPc = "await"
    /\ timingContext' = [timingContext EXCEPT !.response_headers_ms = Num(t)]
    /\ timPc' = "parse"
    /\ UNCHANGED <<firstStreamChunkAtMs, stopChunkAtMs, client_timing>>

\* parseSseCloneAndEmitRecord called with a timing context that lacks marks
DirectCall(context) ==
    /\ timPc = "wrapper"
    /\ timingContext' = context
    /\ timPc' = "parse"
    /\ UNCHANGED <<firstStreamChunkAtMs, stopChunkAtMs, client_timing>>

\* the first reader.read() that delivers a value
FirstChunk(t) ==
    /\ timPc = "parse"
    /\ firstStreamChunkAtMs' = t
    /\ timPc' = "stream"
    /\ UNCHANGED <<timingContext, stopChunkAtMs, client_timing>>

\* the stop chunk is recorded (terminal chunk, [DONE] chunk or fallback)
StopChunk(t) ==
    /\ timPc = "stream"
    /\ stopChunkAtMs' = t
    /\ timPc' = "build"
    /\ UNCHANGED <<timingContext, firstStreamChunkAtMs, client_timing>>

\* the record is built and posted
BuildClientTiming(t) ==
    /\ timPc = "build"
    /\ client_timing' = ClientTiming(timingContext, firstStreamChunkAtMs, stopChunkAtMs, t)
    /\ timPc' = "emitted"
    /\ UNCHANGED <<timingContext, firstStreamChunkAtMs, stopChunkAtMs>>

PartialContexts ==
    { c \in [request_start_ms : {Undefined} \cup { Num(t) : t \in Clock },
             response_headers_ms : {Undefined} \cup { Num(t) : t \in Clock }] :
        c.request_start_ms = Undefined \/ c.response_headers_ms = Undefined }

TimNext ==
    \/ \E t \in Clock : WrapperRequest(t)
    \/ \E t \in Clock : WrapperHeaders(t)
    \/ \E c \in PartialContexts : DirectCall(c)
    \/ \E t \in Clock : FirstChunk(t)
    \/ \E t \in Clock : StopChunk(t)
    \/ \E t \in Clock : BuildClientTiming(t)

\* the six durations with the two marks each is computed from
DurationMarks ==
    << <<client_timing.duration_request_to_headers_ms,
         client_timing.request_start_ms, client_timing.response_headers_ms>>,
       <<client_timing.duration_request_to_first_stream_chunk_ms,
         client_timing.request_start_ms, client_timing.first_stream_chunk_ms>>,
       <<client_timing.duration_headers_to_first_stream_chunk_ms,
         client_timing.response_headers_ms, client_timing.first_stream_chunk_ms>>,
       <<client_timing.duration_first_stream_chunk_to_stop_ms,
         client_timing.first_stream_chunk_ms, client_timing.stop_chunk_ms>>,
       <<client_timing.duration_headers_to_stop_ms,
         client_timing.response_headers_ms, client_timing.stop_chunk_ms>>,
       <<client_timing.duration_request_to_stop_ms,
         client_timing.request_start_ms, client_timing.stop_chunk_ms>> >>

NullExactlyWithoutMark ==
    \A k \in DOMAIN DurationMarks :
        LET d == DurationMarks[k] IN
        /\ (d[1] = NullNum) <=> (d[2] = NullNum \/ d[3] = NullNum)
        /\ d[1] # NullNum => d[1] >= 0

AllMarksPresent ==
    /\ client_timing.request_start_ms # NullNum
    /\ client_timing.response_headers_ms # NullNum
    /\ client_timing.first_stream_chunk_ms # NullNum
    /\ client_timing.stop_chunk_ms # NullNum

MarksInOrder ==
    /\ client_timing.request_start_ms <= client_timing.response_headers_ms
    /\ client_timing.response_headers_ms <= client_timing.first_stream_chunk_ms
    /\ client_timing.first_stream_chunk_ms <= client_timing.stop_chunk_ms

DurationsInOrder ==
    /\ client_timing.duration_request_to_headers_ms
         <= client_timing.duration_request_to_first_stream_chunk_ms
    /\ client_timing.duration_request_to_first_stream_chunk_ms
         <= client_timing.duration_request_to_stop_ms

\* C23 as stated: in every emitted record a duration is null exactly when
\* one of its two marks is unknown and is otherwise non-negative, and with
\* all four marks present request_to_headers <= request_to_first_stream_chunk
\* <= request_to_stop
C23_DurationsConsistent ==
    timPc = "emitted" =>
        /\ NullExactlyWithoutMark
        /\ AllMarksPresent => DurationsInOrder

\* C23 amended: a duration is null exactly when one of its two marks is
\* unknown and is otherwise non-negative; with all four marks present and
\* read in the order request <= headers <= first chunk <= stop, the
\* durations are in that order too
C23_ConsistentWhenMarksInOrder ==
    timPc = "emitted" =>
        /\ NullExactlyWithoutMark
        /\ (AllMarksPresent /\ MarksInOrder) => DurationsInOrder

\* a record whose request, headers and first-chunk marks were read at
\* strictly increasing times
C23_Witness ==
    /\ timPc = "emitted"
    /\ AllMarksPresent
    /\ client_timing.request_start_ms < client_timing.response_headers_ms
    /\ client_timing.response_headers_ms < client_timing.first_stream_chunk_ms
    /\ client_timing.duration_request_to_first_stream_chunk_ms = 2

\* ------------------------------------------------------------------------
\* Properties of the dashboard statistics
\* ------------------------------------------------------------------------
\* the entries of the argument that have both req and resp
CountedEntries ==
    { i \in 1..Len(aggRecords) :
        aggRecords[i].entry # "null" /\ aggRecords[i].has_req /\ aggRecords[i].has_resp }
CountedWithDocument == { i \in CountedEntries : aggRecords[i].has_document }
CountedWithImages == { i \in CountedEntries : aggRecords[i].has_images }

\* the counts of the result
CountsAsCounted ==
    /\ aggStats.summary.total_completions = Cardinality(CountedEntries)
    /\ aggStats.summary.distinct_models
         = Cardinality({ ModelOf(aggRecords[i]) : i \in CountedEntries })
    /\ aggStats.summary.distinct_models = Len(aggStats.models)
    /\ SumSeq([ p \in 1..Len(aggStats.models) |-> aggStats.models[p].completions ])
         = aggStats.summary.total_completions

\* pct (in hundredths) is within [0,100], and 0 when nothing is counted
PctInRange(pct) ==
    /\ pct >= 0
    /\ pct <= 10000
    /\ CountedEntries = {} => pct = 0

\* pct (in hundredths) is 100 * part / whole rounded to two decimals
RoundedShare(pct, part, whole) ==
    whole > 0 => /\ 2 * whole * pct <= 20000 * part + whole
                 /\ 2 * whole * pct > 20000 * part - whole

\* C24 as stated: buildDashboardStats counts exactly the entries with req and
\* resp; total_completions is that count, distinct_models the number of
\* distinct model names and of model rows, the completions of the rows sum
\* to total_completions, and each document/image percentage is 100 times
\* the share of counted records with the flag, within [0,100], 0 when
\* nothing is counted
C24_ExactShare ==
    aggStats # NoResult =>
        LET total == Cardinality(CountedEntries) IN
        /\ CountsAsCounted
        /\ PctInRange(aggStats.summary.document_attached_requests_pct)
        /\ PctInRange(aggStats.summary.image_attached_requests_pct)
        /\ total * aggStats.summary.document_attached_requests_pct
             = 10000 * Cardinality(CountedWithDocument)
        /\ total * aggStats.summary.image_attached_requests_pct
             = 10000 * Cardinality(CountedWithImages)

\* C24 amended: the same, with each percentage being 100 times the share
\* rounded to two decimals
C24_RoundedShare ==
    aggStats # NoResult =>
        LET total == Cardinality(CountedEntries) IN
        /\ CountsAsCounted
        /\ PctInRange(aggStats.summary.document_attached_requests_pct)
        /\ PctInRange(aggStats.summary.image_attached_requests_pct)
        /\ RoundedShare(aggStats.summary.document_attached_requests_pct,
                        Cardinality(CountedWithDocument), total)
        /\ RoundedShare(aggStats.summary.image_attached_requests_pct,
                        Cardinality(CountedWithImages), total)

\* an array with a null entry and two counted records, one of them with a
\* document and images
C24_Witness ==
    /\ aggStats # NoResult
    /\ \E i \in 1..Len(aggRecords) : aggRecords[i] = NullEntry
    /\ aggStats.summary.total_completions = 2
    /\ aggStats.summary.document_attached_requests_pct = 5000
    /\ aggStats.summary.image_attached_requests_pct = 5000

\* ------------------------------------------------------------------------
\* Properties of the scenario comparisons
\* ------------------------------------------------------------------------
\* the model names of the counted entries of the argument, and the counted
\* entries of one model
CountedModels == { ModelOf(aggRecords[i]) : i \in CountedEntries }
CountedOf(model) == { i \in CountedEntries : ModelOf(aggRecords[i]) = model }

\* the rows of a breakdown count, label by label, the counted records of the
\* effective model and no others; labels[i] is the label of aggRecords[i]
RowsCount(rows, labels) ==
    /\ \A p \in 1..Len(rows) :
          rows[p].count =
              Cardinality({ i \in CountedOf(aggScenario.selected_model) :
                              labels[i] = rows[p].label })
    /\ \A i \in CountedOf(aggScenario.selected_model) :
          \E p \in 1..Len(rows) : rows[p].label = labels[i]

\* every row of file_vs_text is taken from a counted record of the effective
\* model
FileVsTextOfEffective ==
    \A p \in 1..Len(aggScenario.comparisons.file_vs_text) :
        LET row == aggScenario.comparisons.file_vs_text[p] IN
        \E i \in CountedOf(aggScenario.selected_model) :
            /\ row.captured_at_ms = aggRecords[i].captured_at_ms
            /\ row.input_mode = LabelOr(aggRecords[i].input_mode, "unknown")
            /\ row.predicted_tps = aggRecords[i].predicted_tps

\* C25: the effective model of buildScenarioComparisons is selected_model
\* when it names a model of the counted records, and otherwise a model with
\* the most counted records; without counted records it is null and every
\* breakdown and comparison is empty; the breakdowns and comparisons are
\* made of the records of the effective model only.
C25_EffectiveModel ==
    aggScenario # NoResult =>
        LET effective == aggScenario.selected_model IN
        /\ aggSelected \in CountedModels => effective = aggSelected
        /\ (aggSelected \notin CountedModels /\ CountedModels # {}) =>
              /\ effective \in CountedModels
              /\ \A m \in CountedModels :
                    Cardinality(CountedOf(m)) <= Cardinality(CountedOf(effective))
        /\ CountedModels = {} =>
              /\ effective = NullStr
              /\ \A d \in DOMAIN Breakdowns : Breakdowns[d] = <<>>
              /\ \A c \in DOMAIN aggScenario.comparisons :
                    aggScenario.comparisons[c] = <<>>
        /\ aggScenario.selected_model_record_count = Cardinality(CountedOf(effective))
        /\ RowsCount(Breakdowns.input_mode,
                     [ i \in 1..Len(aggRecords) |->
                         LabelOr(aggRecords[i].input_mode, "unknown") ])
        /\ RowsCount(Breakdowns.stop_reason_category,
                     [ i \in 1..Len(aggRecords) |->
                         LabelOr(aggRecords[i].stop_reason_category, "unknown") ])
        /\ FileVsTextOfEffective

\* the model with fewer records was selected and is the effective model
C25_Witness ==
    /\ aggScenario # NoResult
    /\ aggSelected = "m2"
    /\ aggScenario.selected_model = "m2"
    /\ aggScenario.selected_model_record_count = 1
    /\ Len(aggScenario.model_options) = 2
    /\ aggScenario.model_options[1].model = "m1"
    /\ aggScenario.model_options[1].count = 2

\* C26: in the models list of buildDashboardStats a row never comes before a
\* row with more completions, and of two rows with equal completions the
\* one with the greater avg_predicted_tps comes first (a row without an
\* average ranks as 0).
C26_ModelsOrdered ==
    aggStats # NoResult =>
        \A p, q \in 1..Len(aggStats.models) :
            p < q =>
                LET a == aggStats.models[p]
                    b == aggStats.models[q]
                IN /\ a.completions >= b.completions
                   /\ (a.completions = b.completions /\ b.avg_predicted_tps # NullNum) =>
                         \/ a.avg_predicted_tps # NullNum
                              /\ a.avg_predicted_tps >= b.avg_predicted_tps
                         \/ a.avg_predicted_tps = NullNum /\ b.avg_predicted_tps <= 0

\* three models with one record each: the fastest, met last in the array, is
\* first, and the one without an average is last
C26_Witness ==
    /\ aggStats # NoResult
    /\ Len(aggStats.models) = 3
    /\ aggStats.models[1].completions = aggStats.models[3].completions
    /\ aggStats.models[1].avg_predicted_tps > aggStats.models[2].avg_predicted_tps
    /\ aggStats.models[3].avg_predicted_tps = NullNum
    /\ ModelOf(aggRecords[3]) = aggStats.models[1].model

\* the prompt hashes of the counted records of the effective model, the
\* records of one hash and their input modes
EffectiveHashes ==
    { aggRecords[i].prompt_hash : i \in CountedOf(aggScenario.selected_model) } \ { NullStr }
HashRecords(hash) ==
    { i \in CountedOf(aggScenario.selected_model) : aggRecords[i].prompt_hash = hash }
HashModes(hash) ==
    { LabelOr(aggRecords[i].input_mode, "unknown") : i \in HashRecords(hash) }
ControlRows == aggScenario.comparisons.prompt_hash_controls
ListedHashes == { ControlRows[p].prompt_hash_prefix : p \in 1..Len(ControlRows) }

\* every row is the row of a hash with more than one input mode, and counts
\* its records and its modes
ControlRowsExact ==
    \A p \in 1..Len(ControlRows) :
        LET row == ControlRows[p] IN
        /\ row.prompt_hash_prefix \in EffectiveHashes
        /\ Cardinality(HashModes(row.prompt_hash_prefix)) > 1
        /\ row.requests = Cardinality(HashRecords(row.prompt_hash_prefix))
        /\ row.scenario_count = Cardinality(HashModes(row.prompt_hash_prefix))
        /\ \A q \in 1..Len(ControlRows) : ControlRows[q].prompt_hash_prefix
                                            = row.prompt_hash_prefix => q = p

\* C27 as stated: prompt_hash_controls has a row for a prompt hash if and
\* only if the selected model's records with that hash have more than one
\* input_mode; requests is the number of those records and scenario_count
\* the number of modes
C27_RowIffMixed ==
    aggScenario # NoResult =>
        /\ ControlRowsExact
        /\ \A h \in EffectiveHashes : Cardinality(HashModes(h)) > 1 => h \in ListedHashes

\* C27 amended: every row is the row of such a hash, with these counts; all
\* such hashes have a row when there are at most 30 of them, and otherwise
\* 30 of them have, none with fewer requests than a hash left out
C27_RowIffMixedUpTo30 ==
    aggScenario # NoResult =>
        LET mixed == { h \in EffectiveHashes : Cardinality(HashModes(h)) > 1 } IN
        /\ ControlRowsExact
        /\ Len(ControlRows) = IF Cardinality(mixed) < PROMPT_HASH_ROWS
                              THEN Cardinality(mixed) ELSE PROMPT_HASH_ROWS
        /\ \A h \in mixed \ ListedHashes : \A g \in ListedHashes :
              Cardinality(HashRecords(h)) <= Cardinality(HashRecords(g))

\* thirty rows, one of them of three requests, and a hash of the same kind
\* left out
C27_Witness ==
    /\ aggScenario # NoResult
    /\ Len(ControlRows) = PROMPT_HASH_ROWS
    /\ ControlRows[1].requests = 3
    /\ ControlRows[1].scenario_count = 2
    /\ \E h \in EffectiveHashes : Cardinality(HashModes(h)) > 1 /\ h \notin ListedHashes

\* ------------------------------------------------------------------------
\* Properties of the compact rows
\* ------------------------------------------------------------------------
\* the fields the document-ingestion panel reads from a row besides model,
\* input_mode, has_files, predicted_n, file_bytes_total and prompt_hash
PanelFields ==
    { "ttft_ms", "prompt_ms", "predicted_ms", "file_count", "file_kind_set",
      "file_size_bucket", "document_detected" }

\* the rows of the result
CompactRows == aggRows.records_compact

\* one row per counted entry, in ascending captured_at_ms order (a row
\* without a time ranks as 0), with the ttft_ms of its record
RowsOfCounted ==
    /\ Len(CompactRows) = Cardinality(CountedEntries)
    /\ \A p, q \in 1..Len(CompactRows) :
          p < q => NumOrZero(CompactRows[p].captured_at_ms) <= NumOrZero(CompactRows[q].captured_at_ms)
    /\ \A p \in 1..Len(CompactRows) :
          \E i \in CountedEntries :
              LET r == aggRecords[i] IN
              /\ CompactRows[p].captured_at_ms = r.captured_at_ms
              /\ CompactRows[p].model = ModelOf(r)
              /\ CompactRows[p].ttft_ms =
                    IF r.client_timing.duration_request_to_first_stream_chunk_ms # NullNum
                    THEN r.client_timing.duration_request_to_first_stream_chunk_ms
                    ELSE r.timings.prompt_ms

\* C29: buildDashboardRecords returns one compact row per input record with
\* req and resp, in ascending captured_at_ms order, and every row carries
\* ttft_ms (the client request-to-first-chunk duration when finite, else
\* timings.prompt_ms) and prompt_ms, predicted_ms, file_count,
\* file_kind_set, file_size_bucket and document_detected, the fields the
\* document-ingestion panel reads.
C29_RowsCarryPanelFields ==
    aggRows # NoResult =>
        /\ RowsOfCounted
        /\ \A p \in 1..Len(CompactRows) : PanelFields \subseteq DOMAIN CompactRows[p]

\* what the code gives: the rows are as described, with ttft_ms and without
\* the six other fields
RowsWithoutPanelFields ==
    aggRows # NoResult =>
        /\ RowsOfCounted
        /\ \A p \in 1..Len(CompactRows) : PanelFields \cap DOMAIN CompactRows[p] = { "ttft_ms" }

C30_LockReleasedOnExit ==
    /\ pc \in { "fallback", "emit", "done" } => ~readerLocked
    /\ (pc \in { "read", "catch", "finally" }) => readerLocked

\* a read threw after part of the body was delivered and a chunk was
\* processed; the invocation returned with the lock released
C30_Witness ==
    /\ pc = "done"
    /\ returning
    /\ ~readerLocked
    /\ pos > 0
    /\ pos < Len(stream)
    /\ processed # <<>>
    /\ posted = <<>>

RotNext == CallShouldRotate

ParserIdle ==
    /\ stream = <<>>
    /\ pos = 0
    /\ buffer = <<>>
    /\ stopChunk = NoChunk
    /\ lastTimingsAtStop = NoTimings
    /\ stopFinishReason = NullStr
    /\ lastTimedChunk = NoChunk
    /\ sawDoneMarker = FALSE
    /\ reasoningBoundary = NoTimings
    /\ pc = "idle"
    /\ returning = FALSE
    /\ readerLocked = FALSE
    /\ posted = <<>>
    /\ processed = <<>>

\* ------------------------------------------------------------------------
\* The wrapped window.fetch and the two branches of the response body
\* ------------------------------------------------------------------------
\* the body of the response: its chunks, numbered in the order the server sends them
Body == [i \in 1..bodyLen |-> i]

FetchInit ==
    /\ fetchPc = "fetch"
    /\ shouldCapture \in BOOLEAN
    /\ isSse \in BOOLEAN
    /\ bodyLen \in 0..MaxBodyChunks
    /\ netPos = 0
    /\ origQueue = <<>>
    /\ cloneQueue = <<>>
    /\ callerBody = <<>>
    /\ returned = "none"
    /\ fetchParserPc = "none"
    /\ parserGot = 0
    /\ gotAtReturn = -1

FetchIdle ==
    /\ fetchPc = "idle"
    /\ shouldCapture = FALSE
    /\ isSse = FALSE
    /\ bodyLen = 0
    /\ netPos = 0
    /\ origQueue = <<>>
    /\ cloneQueue = <<>>
    /\ callerBody = <<>>
    /\ returned = "none"
    /\ fetchParserPc = "none"
    /\ parserGot = 0
    /\ gotAtReturn = -1

\* await originalFetch.apply(this, arguments) resolves; a request that is not
\* captured returns the response at once
OriginalFetchResolves ==
    /\ fetchPc = "fetch"
    /\ IF shouldCapture
       THEN /\ fetchPc' = "meta"
            /\ UNCHANGED <<returned, gotAtReturn>>
       ELSE /\ fetchPc' = "returned"
            /\ returned' = "original"
            /\ gotAtReturn' = parserGot
    /\ UNCHANGED <<shouldCapture, isSse, bodyLen, netPos, origQueue, cloneQueue,
                   callerBody, fetchParserPc, parserGot>>

\* the request metadata is built (its await is inside try/catch), then the
\* parser is called without await: it runs to its first await, that is it
\* clones the response and, for an event stream, issues its first read; then
\* the wrapper returns response
CallParserAndReturn ==
    /\ fetchPc = "meta"
    /\ fetchPc' = "returned"
    /\ cloneQueue' = origQueue
    /\ fetchParserPc' = IF isSse THEN "read" ELSE "skipped"
    /\ returned' = "original"
    /\ gotAtReturn' = parserGot
    /\ UNCHANGED <<shouldCapture, isSse, bodyLen, netPos, origQueue, callerBody,
                   parserGot>>

\* the network delivers the next chunk of the body; after response.clone()
\* every chunk goes to both branches
Deliver ==
    /\ fetchPc \in {"meta", "returned"}
    /\ netPos < bodyLen
    /\ netPos' = netPos + 1
    /\ origQueue' = Append(origQueue, Body[netPos + 1])
    /\ cloneQueue' = IF fetchParserPc = "none" THEN cloneQueue
                     ELSE Append(cloneQueue, Body[netPos + 1])
    /\ UNCHANGED <<fetchPc, shouldCapture, isSse, bodyLen, callerBody, returned,
                   fetchParserPc, parserGot, gotAtReturn>>

\* the caller reads one chunk of the response it was given
CallerRead ==
    /\ returned = "original"
    /\ origQueue # <<>>
    /\ callerBody' = Append(callerBody, Head(origQueue))
    /\ origQueue' = Tail(origQueue)
    /\ UNCHANGED <<fetchPc, shouldCapture, isSse, bodyLen, netPos, cloneQueue,
                   returned, fetchParserPc, parserGot, gotAtReturn>>

ParserReadOriginal ==
    /\ fetchParserPc = "read"
    /\ origQueue # <<>>
    /\ origQueue' = Tail(origQueue)
    /\ parserGot' = parserGot + 1
    /\ UNCHANGED <<fetchPc, shouldCapture, isSse, bodyLen, netPos, cloneQueue,
                   callerBody, returned, fetchParserPc, gotAtReturn>>

\* await reader.read() of the reader of clone.body yields a chunk
ParserRead ==
    /\ fetchParserPc = "read"
    /\ cloneQueue # <<>>
    /\ cloneQueue' = Tail(cloneQueue)
    /\ parserGot' = parserGot + 1
    /\ UNCHANGED <<fetchPc, shouldCapture, isSse, bodyLen, netPos, origQueue,
                   callerBody, returned, fetchParserPc, gotAtReturn>>

\* the parser leaves its read loop: at a terminal chunk ("stopped"), by an
\* exception ("failed"), or at the end of the stream ("ended"); it releases
\* the lock of the clone and cancels nothing
ParserExit(how) ==
    /\ fetchParserPc = "read"
    /\ \/ how = "stopped" /\ parserGot > 0
       \/ how = "failed"
       \/ how = "ended" /\ cloneQueue = <<>> /\ netPos = bodyLen
    /\ fetchParserPc' = how
    /\ UNCHANGED <<fetchPc, shouldCapture, isSse, bodyLen, netPos, origQueue,
                   cloneQueue, callerBody, returned, parserGot, gotAtReturn>>

FetchNext ==
    \/ OriginalFetchResolves
    \/ CallParserAndReturn
    \/ Deliver
    \/ CallerRead
    \/ ParserRead
    \/ ParserExit("stopped")
    \/ ParserExit("failed")
    \/ ParserExit("ended")

\* C31: the wrapper returns the original response, and it returns before the
\* parser has read anything; the chunks the caller has read followed by the
\* chunks waiting in the original body are exactly the chunks delivered so
\* far, whatever the parser did, so the caller can read the whole body: while
\* it has not, a chunk is waiting or still to be delivered.
C31_OriginalBodyIntact ==
    /\ returned \in {"none", "original"}
    /\ returned = "original" => gotAtReturn = 0
    /\ callerBody \o origQueue = SubSeq(Body, 1, netPos)
    /\ (returned = "original" /\ callerBody # Body)
          => (origQueue # <<>> \/ netPos < bodyLen)

\* C31 witness: the caller has read the whole body of at least two chunks
\* from the returned response although the parser failed having read less.
C31_Witness ==
    /\ returned = "original"
    /\ bodyLen >= 2
    /\ callerBody = Body
    /\ fetchParserPc = "failed"
    /\ parserGot < bodyLen

\* ------------------------------------------------------------------------
\* Background worker: the "clear_all" message beside "record" messages
\* ------------------------------------------------------------------------
ClearInit ==
    /\ BgInit
    /\ clearPc = "none"
    /\ clearSid = NullNum
    /\ preClear = {}

ClearIdle ==
    /\ clearPc = "idle"
    /\ clearSid = NullNum
    /\ preClear = {}

\* chrome.runtime.onMessage delivers clear_all: the listener calls clearAll,
\* which awaits its debug log and then the deleteDatabase request
ClearReceive ==
    /\ clearPc = "none"
    /\ clearPc' = "deleteDatabase"
    /\ UNCHANGED <<clearSid, preClear, bgVars>>

\* indexedDB.deleteDatabase(DB_NAME) succeeds: both object stores are gone
DeleteDatabase ==
    /\ clearPc = "deleteDatabase"
    /\ recordsDb' = {}
    /\ sessions' = {}
    /\ clearPc' = "remove"
    /\ UNCHANGED <<clearSid, preClear, chainStore, active_session_id, handlers,
                   closedTabs, now, nextChainSeq, nextSessionSeq, lastStamped>>

\* chrome.storage.local.remove(["active_session_id"]) is served
RemoveActiveSession ==
    /\ clearPc = "remove"
    /\ active_session_id' = NullNum
    /\ clearPc' = "setActiveSession"
    /\ UNCHANGED <<clearSid, preClear, chainStore, sessions, recordsDb, handlers,
                   closedTabs, now, nextChainSeq, nextSessionSeq, lastStamped>>

\* the listener resumes: makeSessionId, setActiveSession(sid), sendResponse
SetNewSession ==
    /\ clearPc = "setActiveSession"
    /\ nextSessionSeq' = nextSessionSeq + 1
    /\ active_session_id' = nextSessionSeq + 1
    /\ sessions' = sessions \cup {nextSessionSeq + 1}
    /\ clearSid' = nextSessionSeq + 1
    /\ clearPc' = "answered"
    /\ UNCHANGED <<preClear, chainStore, recordsDb, handlers, closedTabs, now,
                   nextChainSeq, lastStamped>>

\* record messages of one tab, one in flight at a time, beside one clear_all
ClearNext ==
    \/ \E i \in 1..MaxRecords :
          /\ Receive(i, 0, {1}, TurnMessages, NoGap)
          /\ preClear' = IF clearPc = "none" THEN preClear \cup {i} ELSE preClear
          /\ UNCHANGED <<clearPc, clearSid>>
    \/ \E i \in 1..MaxRecords : ReadSession(i) /\ UNCHANGED clearVars
    \/ \E i \in 1..MaxRecords : HaveSession(i) /\ UNCHANGED clearVars
    \/ \E i \in 1..MaxRecords : ReadChainState(i) /\ UNCHANGED clearVars
    \/ \E i \in 1..MaxRecords : Stamp(i) /\ UNCHANGED clearVars
    \/ \E i \in 1..MaxRecords : Put(i) /\ UNCHANGED clearVars
    \/ ClearReceive
    \/ DeleteDatabase
    \/ RemoveActiveSession
    \/ SetNewSession

\* the records in the store that were received before the clear_all message
StoredFromBeforeClear == { r \in recordsDb : r.trace_id \in preClear }

\* C32: once clear_all has been answered, no record received before it is in
\* the store, and the active session exists and holds none of those records,
\* whatever record handlers were in flight.
C32_ClearedAfterAnswer ==
    clearPc = "answered" =>
        /\ StoredFromBeforeClear = {}
        /\ active_session_id # NullNum
        /\ \A r \in StoredFromBeforeClear : r.session_id # active_session_id

\* ------------------------------------------------------------------------
\* importJsonlRecords (background.js)
\* ------------------------------------------------------------------------
\* an element of the imported array: an object with or without req and resp
\* and with or without a session_id, null, or a number
ImportElement(k, q, p, s, t) ==
    [ kind |-> k, has_req |-> q, has_resp |-> p, session_id |-> s, trace_id |-> t ]

ImportElements ==
    { ImportElement("object", q, p, s, "t") :
        q \in BOOLEAN, p \in BOOLEAN, s \in {NullStr, "s-old", "s-file"} }
    \cup { ImportElement("null", FALSE, FALSE, NullStr, NullStr),
           ImportElement("number", FALSE, FALSE, NullStr, NullStr) }

\* the argument: an array of up to MaxImport elements, or something that is
\* not an array
NotAnArray == [not |-> "array"]

ImportInputs ==
    { [array |-> a] : a \in UNION { [1..n -> ImportElements] : n \in 0..MaxImport } }
    \cup { NotAnArray }

\* a row of the records store
StoredRow(sid, i, rec) ==
    [ key |-> <<sid, rec.trace_id, i>>, session_id |-> sid, record |-> rec ]

\* what the store and the active session can be before an import
ImportBefore ==
    { [store |-> {}, active |-> NullStr],
      [store |-> {}, active |-> "s-old"],
      [store |-> { StoredRow("s-old", 0,
                      ImportElement("object", TRUE, TRUE, "s-old", "t-old")) },
       active |-> "s-old"] }

ImpInit ==
    /\ impPc = "call"
    /\ impInput \in ImportInputs
    /\ impBefore \in ImportBefore
    /\ impStore = impBefore.store
    /\ impActive = impBefore.active
    /\ impSid = NullStr

ImpIdle ==
    /\ impPc = "idle"
    /\ impInput = NotAnArray
    /\ impBefore = [store |-> {}, active |-> NullStr]
    /\ impStore = {}
    /\ impActive = NullStr
    /\ impSid = NullStr

\* const input = Array.isArray(records) ? records : []
InputArray(records) == IF records = NotAnArray THEN <<>> ELSE records.array

\* !r || typeof r !== "object" || !r.req || !r.resp
RejectedElement(r) == r.kind # "object" \/ ~r.has_req \/ ~r.has_resp

ImportValidateFirstOnly ==
    /\ impPc = "call"
    /\ LET input == InputArray(impInput)
       IN impPc' = IF Len(input) = 0 \/ RejectedElement(input[1])
                   THEN "threw" ELSE "clearAll"
    /\ UNCHANGED <<impInput, impStore, impActive, impSid, impBefore>>

\* the synchronous start of importJsonlRecords: it throws on an empty input or
\* a rejected element, or goes on to await clearAll()
ImportValidate ==
    /\ impPc = "call"
    /\ LET input == InputArray(impInput)
       IN impPc' = IF Len(input) = 0 \/ \E i \in 1..Len(input) : RejectedElement(input[i])
                   THEN "threw" ELSE "clearAll"
    /\ UNCHANGED <<impInput, impStore, impActive, impSid, impBefore>>

\* clearAll: the database is deleted and active_session_id removed
ImportClearAll ==
    /\ impPc = "clearAll"
    /\ impStore' = {}
    /\ impActive' = NullStr
    /\ impPc' = "setActiveSession"
    /\ UNCHANGED <<impInput, impSid, impBefore>>

\* inferredSession = input[0]?.session_id || makeSessionId(); setActiveSession
ImportSetActiveSession ==
    /\ impPc = "setActiveSession"
    /\ LET first == InputArray(impInput)[1]
           sid == IF first.session_id # NullStr THEN first.session_id ELSE "s-new"
       IN /\ impSid' = sid
          /\ impActive' = sid
    /\ impPc' = "put"
    /\ UNCHANGED <<impInput, impStore, impBefore>>

\* one transaction puts a copy of every element, its session_id replaced,
\* under a key that ends with the element's index; the call returns
ImportPut ==
    /\ impPc = "put"
    /\ LET input == InputArray(impInput)
       IN impStore' = impStore \cup
             { StoredRow(impSid, i, [input[i] EXCEPT !.session_id = impSid]) :
                 i \in 1..Len(input) }
    /\ impPc' = "done"
    /\ UNCHANGED <<impInput, impActive, impSid, impBefore>>

ImpNext ==
    \/ ImportValidate
    \/ ImportClearAll
    \/ ImportSetActiveSession
    \/ ImportPut

\* the input is empty, not an array, or has an element without req or resp
InvalidImport ==
    \/ impInput = NotAnArray
    \/ Len(impInput.array) = 0
    \/ \E i \in 1..Len(impInput.array) :
          LET r == impInput.array[i]
          IN r.kind # "object" \/ ~r.has_req \/ ~r.has_resp

ImportUntouched == impStore = impBefore.store /\ impActive = impBefore.active

Hostname == "app.example.com"
HostSuffixes == { "app.example.com", "example.com", "com" }

DomainPattern(w, n) == [wild |-> w, name |-> n]

\* normalized patterns: the host itself, a wildcard over its parent, the
\* parent alone, and another site
DomainPatterns ==
    { DomainPattern(FALSE, "app.example.com"), DomainPattern(TRUE, "example.com"),
      DomainPattern(FALSE, "example.com"), DomainPattern(FALSE, "other.org") }

AllowLists == { {} } \cup { {p} : p \in DomainPatterns } \cup { DomainPatterns }

\* "*.suffix" matches the suffix and its subdomains, a plain name matches itself
hostMatchesPattern(pattern) ==
    IF pattern.wild THEN pattern.name \in HostSuffixes ELSE pattern.name = Hostname

\* isCurrentHostAllowed on the list read
HostAllowed(list) == \E p \in list : hostMatchesPattern(p)

BlankCheck(p) == [pc |-> p, found |-> FALSE]

CapInit ==
    /\ allowed_domains \in AllowLists
    /\ checks = [i \in 1..MaxChecks |-> BlankCheck("none")]
    /\ captureStarted = FALSE
    /\ startCount = 0
    /\ matchSeen = FALSE

CapIdle ==
    /\ allowed_domains = {}
    /\ checks = [i \in 1..MaxChecks |-> BlankCheck("idle")]
    /\ captureStarted = FALSE
    /\ startCount = 0
    /\ matchSeen = FALSE

\* maybeStartCapture(reason) is called: it returns when capture has started
\* and otherwise awaits isCurrentHostAllowed()
BeginCheck(i) ==
    checks' = [checks EXCEPT ![i].pc = IF captureStarted THEN "done" ELSE "get"]

\* the startup function has read debug_enabled and calls maybeStartCapture
StartupCheck ==
    /\ checks[1].pc = "none"
    /\ BeginCheck(1)
    /\ UNCHANGED <<allowed_domains, captureStarted, startCount, matchSeen>>

\* the popup stores another allowlist; chrome.storage.onChanged calls
\* maybeStartCapture
AllowedDomainsChanged(i, list) ==
    /\ i > 1
    /\ checks[i].pc = "none"
    /\ \A j \in 2..(i - 1) : checks[j].pc # "none"
    /\ list # allowed_domains
    /\ allowed_domains' = list
    /\ BeginCheck(i)
    /\ UNCHANGED <<captureStarted, startCount, matchSeen>>

\* getAllowedDomains: the storage read of the check is served
CheckRead(i) ==
    /\ checks[i].pc = "get"
    /\ checks' = [checks EXCEPT ![i] = [pc |-> "resume", found |-> HostAllowed(allowed_domains)]]
    /\ matchSeen' = (matchSeen \/ HostAllowed(allowed_domains))
    /\ UNCHANGED <<allowed_domains, captureStarted, startCount>>

StartCaptureUnguarded(i) ==
    /\ checks[i].pc = "resume"
    /\ checks' = [checks EXCEPT ![i].pc = "done"]
    /\ IF checks[i].found
       THEN /\ captureStarted' = TRUE
            /\ startCount' = startCount + 1
       ELSE UNCHANGED <<captureStarted, startCount>>
    /\ UNCHANGED <<allowed_domains, matchSeen>>

\* maybeStartCapture resumes: startCapture() when the host is allowed, which
\* returns when __captureStarted is set and otherwise sets it, mounts the
\* dashboard, injects the page hook and installs the listeners
ResumeCheck(i) ==
    /\ checks[i].pc = "resume"
    /\ checks' = [checks EXCEPT ![i].pc = "done"]
    /\ IF checks[i].found /\ ~captureStarted
       THEN /\ captureStarted' = TRUE
            /\ startCount' = startCount + 1
       ELSE UNCHANGED <<captureStarted, startCount>>
    /\ UNCHANGED <<allowed_domains, matchSeen>>

CapNext ==
    \/ StartupCheck
    \/ \E i \in 1..MaxChecks, list \in AllowLists : AllowedDomainsChanged(i, list)
    \/ \E i \in 1..MaxChecks : CheckRead(i)
    \/ \E i \in 1..MaxChecks : ResumeCheck(i)

\* C34: capture is started at most once on a page, and only when a check has
\* found the host matching a pattern of the allowlist it read.
C34_StartedOnceAfterMatch ==
    /\ startCount <= 1
    /\ captureStarted = (startCount = 1)
    /\ startCount = 1 => matchSeen

\* C34 witness: the startup check and a check caused by a change of the
\* allowlist both found the host allowed and both have resumed, and capture
\* was started once.
C34_Witness ==
    /\ checks[1] = [pc |-> "done", found |-> TRUE]
    /\ checks[2] = [pc |-> "done", found |-> TRUE]
    /\ startCount = 1

\* ------------------------------------------------------------------------
\* categorizeFinishReason and the finish reason of a record (injected.js)
\* ------------------------------------------------------------------------
JsNull == [t |-> "null"]

\* x is null or undefined
IsNullish(x) == x = JsNull \/ x = Undefined

\* values a server may send as choices[0].finish_reason
FinishReasonValues ==
    { Undefined, JsNull, Num(0), Num(1), Str(""), Str("stop"), Str("length"),
      Str("content_filter"), Str("tool_calls"), Str("done"), Str("STOP"),
      Str("weird") }

\* a terminal chunk carries a non-empty string; the chunk a [DONE] marker
\* falls back to carries any value, in a choices array or without one; a
\* direct call takes any value
CatInputs ==
    { [path |-> "terminal", raw |-> v] :
        v \in { w \in FinishReasonValues : w.t = "string" /\ w.v # "" } }
    \cup { [path |-> p, raw |-> v] :
             p \in {"done_marker", "done_marker_no_choices", "direct"},
             v \in FinishReasonValues }

CatInit ==
    /\ catPc = "start"
    /\ \E in \in CatInputs : catPath = in.path /\ catRaw = in.raw
    /\ catStop = JsNull
    /\ catFinal = JsNull
    /\ catCategory = NullStr

CatIdle ==
    /\ catPc = "idle"
    /\ catPath = "direct"
    /\ catRaw = JsNull
    /\ catStop = JsNull
    /\ catFinal = JsNull
    /\ catCategory = NullStr

categorizeFinishReasonByTruthiness(finishReason) ==
    IF finishReason = Str("stop") THEN "completed"
    ELSE IF finishReason = Str("length") THEN "truncated_length"
    ELSE IF finishReason = Str("content_filter") THEN "filtered"
    ELSE IF finishReason = Str("tool_calls") THEN "tool_calls"
    ELSE IF IsNullish(finishReason) \/ finishReason \in {Str(""), Num(0)} THEN "unknown"
    ELSE "other"

categorizeFinishReason(finishReason) ==
    IF finishReason = Str("stop") THEN "completed"
    ELSE IF finishReason = Str("length") THEN "truncated_length"
    ELSE IF finishReason = Str("content_filter") THEN "filtered"
    ELSE IF finishReason = Str("tool_calls") THEN "tool_calls"
    ELSE IF IsNullish(finishReason) THEN "unknown"
    ELSE "other"

\* stopFinishReason = finishReason at a terminal chunk;
\* (Array.isArray(choices) ? choices[0]?.finish_reason : null) ?? "done"
\* when a [DONE] marker makes the last chunk with timings the stop chunk
SetStopFinishReason ==
    /\ catPc = "start"
    /\ catPath # "direct"
    /\ catStop' =
          IF catPath = "terminal" THEN catRaw
          ELSE LET v == IF catPath = "done_marker" THEN catRaw ELSE JsNull
               IN IF IsNullish(v) THEN Str("done") ELSE v
    /\ catPc' = "stopped"
    /\ UNCHANGED <<catPath, catRaw, catFinal, catCategory>>

\* const finishReasonFinal = stopFinishReason ?? "stop"
SetFinishReasonFinal ==
    /\ catPc = "stopped"
    /\ catFinal' = IF IsNullish(catStop) THEN Str("stop") ELSE catStop
    /\ catPc' = "final"
    /\ UNCHANGED <<catPath, catRaw, catStop, catCategory>>

\* the record: finish_reason: finishReasonFinal,
\* stop_reason_category: categorizeFinishReason(finishReasonFinal)
BuildGuardrails ==
    /\ catPc = "final"
    /\ catCategory' = categorizeFinishReason(catFinal)
    /\ catPc' = "record"
    /\ UNCHANGED <<catPath, catRaw, catStop, catFinal>>

\* categorizeFinishReason(value), called on its own
CallCategorize ==
    /\ catPc = "start"
    /\ catPath = "direct"
    /\ catCategory' = categorizeFinishReason(catRaw)
    /\ catPc' = "called"
    /\ UNCHANGED <<catPath, catRaw, catStop, catFinal>>

CatNext ==
    \/ SetStopFinishReason
    \/ SetFinishReasonFinal
    \/ BuildGuardrails
    \/ CallCategorize

\* the mapping as the statement gives it
CategoryOf(reason) ==
    CASE reason = Str("stop") -> "completed"
      [] reason = Str("length") -> "truncated_length"
      [] reason = Str("content_filter") -> "filtered"
      [] reason = Str("tool_calls") -> "tool_calls"
      [] reason \in {JsNull, Undefined} -> "unknown"
      [] OTHER -> "other"

\* C35: the stop_reason_category of a record is the category of the record's
\* finish_reason, and a call of categorizeFinishReason returns the category
\* of its argument: completed for stop, truncated_length for length, filtered
\* for content_filter, tool_calls for tool_calls, unknown for null and
\* undefined, other for anything else.
C35_CategoryIsMapping ==
    /\ catPc = "record" => catCategory = CategoryOf(catFinal)
    /\ catPc = "called" => catCategory = CategoryOf(catRaw)

\* C35 witness: a record whose finish reason came from the chunk before a
\* [DONE] marker and is the number 0 has the category other.
C35_Witness ==
    /\ catPc = "record"
    /\ catPath = "done_marker"
    /\ catFinal = Num(0)
    /\ catCategory = "other"

\* ------------------------------------------------------------------------
\* Captured text (injected.js)
\* ------------------------------------------------------------------------
MAX_CAPTURED_TEXT_CHARS == 200000

\* A string is written as the pieces it is made of: <<[d |-> k, n |-> m]>> is
\* the first m characters of the text of the k-th delta; a delta field is the
\* length of its string, or NotAString
NotAString == NullNum

ContentLengths == { NotAString, 0, 1, MAX_CAPTURED_TEXT_CHARS - 1, MAX_CAPTURED_TEXT_CHARS + 1 }
ReasoningLengths == { NotAString, 1, MAX_CAPTURED_TEXT_CHARS }

RECURSIVE TextLength(_)
TextLength(text) ==
    IF text = <<>> THEN 0 ELSE text[1].n + TextLength(Tail(text))

Min(a, b) == IF a < b THEN a ELSE b

\* text += delta.slice(0, remaining), for the delta numbered k of len characters
AppendSlice(text, k, len, remaining) ==
    IF Min(len, remaining) = 0 THEN text
    ELSE Append(text, [d |-> k, n |-> Min(len, remaining)])

AccumulateUnclipped(text, k, len) ==
    IF len # NotAString /\ TextLength(text) < MAX_CAPTURED_TEXT_CHARS
    THEN AppendSlice(text, k, len, len)
    ELSE text

\* if (typeof delta.x === "string" && text.length < MAX_CAPTURED_TEXT_CHARS) {
\*   const remaining = MAX_CAPTURED_TEXT_CHARS - text.length;
\*   if (remaining > 0) text += delta.x.slice(0, remaining); }
Accumulate(text, k, len) ==
    IF len # NotAString /\ TextLength(text) < MAX_CAPTURED_TEXT_CHARS
    THEN LET remaining == MAX_CAPTURED_TEXT_CHARS - TextLength(text)
         IN IF remaining > 0 THEN AppendSlice(text, k, len, remaining) ELSE text
    ELSE text

TxtInit ==
    /\ txtDeltas = <<>>
    /\ responseText = <<>>
    /\ reasoningText = <<>>

TxtIdle == TxtInit

\* the line loop accepts a chunk whose delta has content of c characters and
\* reasoning_content of r characters
AcceptDelta(c, r) ==
    /\ Len(txtDeltas) < MaxDeltas
    /\ txtDeltas' = Append(txtDeltas, [content |-> c, reasoning_content |-> r])
    /\ responseText' = Accumulate(responseText, Len(txtDeltas) + 1, c)
    /\ reasoningText' = Accumulate(reasoningText, Len(txtDeltas) + 1, r)

TxtNext == \E c \in ContentLengths, r \in ReasoningLengths : AcceptDelta(c, r)

\* the concatenation of the strings among the given delta fields
RECURSIVE Concatenation(_, _)
Concatenation(lengths, k) ==
    IF lengths = <<>> THEN <<>>
    ELSE (IF Head(lengths) > 0 THEN <<[d |-> k, n |-> Head(lengths)]>> ELSE <<>>)
         \o Concatenation(Tail(lengths), k + 1)

\* text is a prefix of whole
IsTextPrefix(text, whole) ==
    /\ Len(text) <= Len(whole)
    /\ \A i \in 1..Len(text) :
          /\ text[i].d = whole[i].d
          /\ IF i < Len(text) THEN text[i].n = whole[i].n
             ELSE text[i].n >= 1 /\ text[i].n <= whole[i].n

\* C36: in every state of a parse the visible text and the reasoning text
\* have at most MAX_CAPTURED_TEXT_CHARS characters each, and each is a prefix
\* of the concatenation of the content, respectively reasoning_content,
\* strings of the deltas processed so far.
C36_TextCappedPrefix ==
    /\ TextLength(responseText) <= MAX_CAPTURED_TEXT_CHARS
    /\ TextLength(reasoningText) <= MAX_CAPTURED_TEXT_CHARS
    /\ IsTextPrefix(responseText,
          Concatenation([i \in 1..Len(txtDeltas) |-> txtDeltas[i].content], 1))
    /\ IsTextPrefix(reasoningText,
          Concatenation([i \in 1..Len(txtDeltas) |-> txtDeltas[i].reasoning_content], 1))

\* C36 witness: the visible text is full, its last delta was cut, and a
\* later delta with content was processed and left out.
C36_Witness ==
    /\ TextLength(responseText) = MAX_CAPTURED_TEXT_CHARS
    /\ Len(responseText) = 2
    /\ responseText[2].n = 1
    /\ Len(txtDeltas) >= 3
    /\ txtDeltas[3].content = 1

\* ------------------------------------------------------------------------
\* The parser on a body that reads cut anywhere (injected.js)
\* ------------------------------------------------------------------------
\* pieces of text smaller than the atoms of a line: the two halves of
\* "data:", of "[DONE]" and of the JSON text of a chunk
DataHead == [a |-> "da"]
DataTail == [a |-> "ta:"]
DoneHead == [a |-> "[DO"]
DoneTail == [a |-> "NE]"]
JsonOpen(c) == [a |-> "json-head", chunk |-> c]
JsonClose(c) == [a |-> "json-tail", chunk |-> c]

\* a completion chunk with its id, its model and the lengths of
\* delta.content and delta.reasoning_content (NotAString: not a string)
RichChunk(fr, t, id, model, c, r) ==
    [ object |-> "chat.completion.chunk", finish_reason |-> fr, timings |-> t,
      reasoning |-> (r # NotAString), id |-> id, model |-> model,
      content |-> c, reasoning_content |-> r ]

RichChunks ==
    { RichChunk(NullStr, T1, "id-a", "m1", NotAString, 1),
      RichChunk(NullStr, T1, "id-b", NullStr, 1, NotAString),
      RichChunk(NullStr, NoTimings, NullStr, "m2", 1, NotAString),
      RichChunk("stop", T2, "id-a", "m1", NotAString, NotAString) }

SplitLines ==
    { <<DataHead, DataTail, JsonOpen(c), JsonClose(c)>> : c \in RichChunks }
    \cup { <<DataHead, DataTail, DoneHead, DoneTail>>, <<OtherText>> }

\* bodies of up to MaxSplitLines lines, complete or ending anywhere
SplitBodies ==
    LET whole == { Flatten(ls) : ls \in UNION { [1..n -> SplitLines] : n \in 0..MaxSplitLines } }
    IN UNION { { SubSeq(b, 1, n) : n \in 0..Len(b) } : b \in whole }

\* the text of the payload of a data line, as safeJsonParse and the [DONE]
\* test see it: whole pieces only
JoinData(data) ==
    IF data = <<>> THEN <<>>
    ELSE IF data = <<DoneHead, DoneTail>> THEN <<DoneText>>
    ELSE IF /\ Len(data) = 2
            /\ data[1].a = "json-head" /\ data[2].a = "json-tail"
            /\ data[1].chunk = data[2].chunk
         THEN <<Json(data[1].chunk)>>
         ELSE <<OtherText>>

\* the line as line.startsWith("data:") and line.slice(5) see it
JoinLine(line) ==
    IF Len(line) >= 2 /\ line[1] = DataHead /\ line[2] = DataTail
    THEN <<DataPrefix>> \o JoinData(SubSeq(line, 3, Len(line)))
    ELSE IF line = <<>> THEN <<>> ELSE <<OtherText>>

SplitFirstLocals ==
    [ buffer |-> <<>>, stopChunk |-> NoChunk, lastTimingsAtStop |-> NoTimings,
      stopFinishReason |-> NullStr, lastTimedChunk |-> NoChunk,
      sawDoneMarker |-> FALSE, reasoningBoundary |-> NoTimings,
      processed |-> <<>>, brk |-> FALSE,
      completionId |-> NullStr, completionModel |-> NullStr,
      responseText |-> <<>>, reasoningText |-> <<>> ]

\* the body of the line loop for one line: for an accepted chunk, the first
\* id and model are kept and the delta texts are accumulated
SplitOneLine(s, line) ==
    LET s1 == OneLine(s, JoinLine(line))
    IN IF Len(s1.processed) > Len(s.processed) /\ s1.processed[Len(s1.processed)] # DoneText
       THEN LET chunk == s1.processed[Len(s1.processed)].chunk
            IN [s1 EXCEPT
                  !.completionId = IF s.completionId # NullStr THEN s.completionId
                                   ELSE chunk.id,
                  !.completionModel = IF s.completionModel # NullStr THEN s.completionModel
                                      ELSE chunk.model,
                  !.responseText = Accumulate(s.responseText, Len(s1.processed), chunk.content),
                  !.reasoningText = Accumulate(s.reasoningText, Len(s1.processed),
                                               chunk.reasoning_content)]
       ELSE s1

\* while ((lineEnd = buffer.indexOf("\n")) !== -1) { ... }
RECURSIVE SplitLineLoop(_)
SplitLineLoop(s) ==
    LET lineEnd == IndexOfNL(s.buffer, 1) IN
    IF lineEnd = 0 THEN s
    ELSE LET line == SubSeq(s.buffer, 1, lineEnd - 1)
             rest == SubSeq(s.buffer, lineEnd + 1, Len(s.buffer))
             s1 == SplitOneLine([s EXCEPT !.buffer = rest], line)
         IN IF s1.brk THEN s1 ELSE SplitLineLoop(s1)

\* the record posted for the local variables the read loop ended with, with
\* resp.id, resp.model, responseText and ReasoningText
SplitOutcome(s) ==
    IF PostedFor(s) = <<>> THEN <<>>
    ELSE << [ record |-> PostedFor(s)[1], id |-> s.completionId,
              model |-> s.completionModel, responseText |-> s.responseText,
              ReasoningText |-> IF TextLength(s.reasoningText) > 0
                                THEN s.reasoningText ELSE <<>> ] >>

SplInit ==
    /\ splStream \in SplitBodies
    /\ splPos = 0
    /\ splLocals = SplitFirstLocals
    /\ splPc = "read"
    /\ splPosted = <<>>
    /\ splCutInJson = FALSE

SplIdle ==
    /\ splStream = <<>>
    /\ splPos = 0
    /\ splLocals = SplitFirstLocals
    /\ splPc = "idle"
    /\ splPosted = <<>>
    /\ splCutInJson = FALSE

SplitReadNoCarry(k) ==
    /\ splPc = "read"
    /\ splPos + k <= Len(splStream)
    /\ splPos' = splPos + k
    /\ LET s == SplitLineLoop([splLocals EXCEPT
                   !.buffer = SubSeq(splStream, splPos + 1, splPos + k)])
       IN /\ splLocals' = s
          /\ splPc' = IF s.stopChunk # NoChunk THEN "finish" ELSE "read"
    /\ splCutInJson' = (splCutInJson \/ splStream[splPos + k].a = "json-head")
    /\ UNCHANGED <<splStream, splPosted>>

\* reader.read() resolves with the next k pieces: they are appended to the
\* buffer and the line loop runs
SplitRead(k) ==
    /\ splPc = "read"
    /\ splPos + k <= Len(splStream)
    /\ splPos' = splPos + k
    /\ LET s == SplitLineLoop([splLocals EXCEPT
                   !.buffer = splLocals.buffer \o SubSeq(splStream, splPos + 1, splPos + k)])
       IN /\ splLocals' = s
          /\ splPc' = IF s.stopChunk # NoChunk THEN "finish" ELSE "read"
    /\ splCutInJson' = (splCutInJson \/ splStream[splPos + k].a = "json-head")
    /\ UNCHANGED <<splStream, splPosted>>

\* reader.read() resolves with done: true
SplitReadDone ==
    /\ splPc = "read"
    /\ splPos = Len(splStream)
    /\ splPc' = "finish"
    /\ UNCHANGED <<splStream, splPos, splLocals, splPosted, splCutInJson>>

\* after the read loop: the [DONE] fallback, and the record or none
SplitFinish ==
    /\ splPc = "finish"
    /\ splPosted' = SplitOutcome(splLocals)
    /\ splPc' = "done"
    /\ UNCHANGED <<splStream, splPos, splLocals, splCutInJson>>

SplNext ==
    \/ \E k \in 1..MaxReadAtoms : SplitRead(k)
    \/ SplitReadDone
    \/ SplitFinish

\* the outcome of the body delivered by a single read
SingleReadOutcome ==
    SplitOutcome(SplitLineLoop([SplitFirstLocals EXCEPT !.buffer = splStream]))

\* C37: however the body is cut into reads, also inside "data:", inside
\* [DONE] and inside a JSON payload, a finished parse has the outcome of the
\* body delivered by a single read: no record, or the record with the same
\* id, model, finish_reason, timings, derived values and captured text.
C37_SameOutcomeForEverySplit ==
    splPc = "done" => splPosted = SingleReadOutcome

\* C37 witness: a record with an id and reasoning text was posted for a body
\* of which a read ended inside a JSON payload.
C37_Witness ==
    /\ splPc = "done"
    /\ splCutInJson
    /\ splPosted # <<>>
    /\ splPosted[1].id = "id-a"
    /\ splPosted[1].ReasoningText # <<>>

\* ------------------------------------------------------------------------
\* Background worker: addRecord when chain assignment fails
\* ------------------------------------------------------------------------
\* no response sent yet
NoAnswer == [absent |-> "answer"]

FailInit ==
    /\ BgInit
    /\ failed = {}
    /\ answers = [i \in 1..MaxRecords |-> NoAnswer]

FailIdle ==
    /\ failed = {}
    /\ answers = [i \in 1..MaxRecords |-> NoAnswer]

\* getTabChainState(tabId): chrome.storage.local.get rejects; assignChainMetadata
\* throws before it has stamped the record, and addRecord enters its catch
\* block, which awaits debugLog
ReadChainStateFails(i) ==
    /\ handlers[i].pc = "getTabChainState"
    /\ handlers[i].tab # NoTab
    /\ handlers' = [handlers EXCEPT ![i].pc = "catch"]
    /\ failed' = failed \cup {i}
    /\ UNCHANGED <<chainStore, active_session_id, sessions, recordsDb, closedTabs, now,
                   nextChainSeq, nextSessionSeq, lastStamped, answers>>

\* assignChainMetadata resumes with the state read, decides and stamps the
\* record; setTabChainState rejects: the state is not stored, and addRecord
\* enters its catch block
WriteChainStateFails(i) ==
    /\ handlers[i].pc = "stamp"
    /\ handlers[i].tab # NoTab
    /\ LET h == handlers[i]
           signals == getConversationSignals(h.record)
           meta == ChainMeta(h.state, signals, h.ts, h.sender, nextChainSeq + 1)
       IN /\ nextChainSeq' = IF meta[3] THEN nextChainSeq + 1 ELSE nextChainSeq
          /\ handlers' = [handlers EXCEPT
                 ![i].chain_id = meta[1],
                 ![i].turn_number = meta[2],
                 ![i].pc = "catch"]
    /\ failed' = failed \cup {i}
    /\ UNCHANGED <<chainStore, active_session_id, sessions, recordsDb, closedTabs, now,
                   nextSessionSeq, lastStamped, answers>>

\* the catch block of addRecord: await debugLog(...), whose read of
\* debug_enabled is served; addRecord goes on to the put
CatchLog(i) ==
    /\ handlers[i].pc = "catch"
    /\ handlers' = [handlers EXCEPT ![i].pc = "put"]
    /\ UNCHANGED <<chainStore, active_session_id, sessions, recordsDb, closedTabs, now,
                   nextChainSeq, nextSessionSeq, lastStamped, failed, answers>>

\* the catch block of addRecord: the read of debug_enabled in debugLog
\* rejects as well; addRecord rejects, and the listener answers with an error
\* (chain_id -1 marks the error answer)
CatchLogFails(i) ==
    /\ handlers[i].pc = "catch"
    /\ handlers' = [handlers EXCEPT ![i] = BlankHandler("done")]
    /\ answers' = [answers EXCEPT ![i] =
          [session_id |-> NullNum, chain_id |-> -1, turn_number |-> -1]]
    /\ UNCHANGED <<chainStore, active_session_id, sessions, recordsDb, closedTabs, now,
                   nextChainSeq, nextSessionSeq, lastStamped, failed>>

\* addRecord puts the record and returns { session_id, key, ...chainMeta },
\* chainMeta being { chain_id: null, turn_number: null } after a failure
\* (0 stands for null)
PutAndAnswer(i) ==
    /\ Put(i)
    /\ answers' = [answers EXCEPT ![i] =
          [ session_id |-> handlers[i].sid,
            chain_id |-> IF i \in failed THEN 0 ELSE handlers[i].chain_id,
            turn_number |-> IF i \in failed THEN 0 ELSE handlers[i].turn_number ]]
    /\ UNCHANGED failed

\* record messages handled one at a time, with storage calls of the chain
\* assignment and of its catch block that may fail
FailNext ==
    \/ \E i \in 1..MaxRecords :
          Receive(i, 0, {1, NoTab}, TurnMessages, NoGap) /\ UNCHANGED failVars
    \/ \E i \in 1..MaxRecords : ReadSession(i) /\ UNCHANGED failVars
    \/ \E i \in 1..MaxRecords : HaveSession(i) /\ UNCHANGED failVars
    \/ \E i \in 1..MaxRecords : ReadChainState(i) /\ UNCHANGED failVars
    \/ \E i \in 1..MaxRecords : ReadChainStateFails(i)
    \/ \E i \in 1..MaxRecords : Stamp(i) /\ UNCHANGED failVars
    \/ \E i \in 1..MaxRecords : WriteChainStateFails(i)
    \/ \E i \in 1..MaxRecords : CatchLog(i)
    \/ \E i \in 1..MaxRecords : CatchLogFails(i)
    \/ \E i \in 1..MaxRecords : PutAndAnswer(i)

\* C38: every record message that has been handled has its record in the
\* store under the active session, and has been answered with that session;
\* when chain assignment threw, the answer has chain_id and turn_number null.
C38_FailureKeepsRecord ==
    \A i \in 1..MaxRecords :
        handlers[i].pc = "done" =>
            /\ \E r \in recordsDb :
                  r.trace_id = i /\ r.session_id = active_session_id
            /\ answers[i] # NoAnswer
            /\ answers[i].session_id = active_session_id
            /\ i \in failed => (answers[i].chain_id = 0 /\ answers[i].turn_number = 0)

\* ------------------------------------------------------------------------
\* Background worker: the session of records handled together
\* ------------------------------------------------------------------------
\* C39: when no listener invocation is in flight, every stored record carries
\* the active session id, and the record messages handled so far have created
\* at most one session.
C39_OneSessionForAll ==
    InFlight = {} =>
        /\ \A r \in recordsDb : r.session_id = active_session_id
        /\ Cardinality(sessions) <= 1

\* ------------------------------------------------------------------------
\* Attachment events and getAttachmentMetaForRequest (injected.js)
\* ------------------------------------------------------------------------
\* const ATTACHMENT_EVENT_WINDOW_MS = 5 * 60 * 1000
ATTACHMENT_EVENT_WINDOW_MS == 5 * 60 * 1000

\* time that passes before a step: none (the clock reads the same
\* millisecond), a millisecond, or more than the window
AttGaps == { 0, 1, ATTACHMENT_EVENT_WINDOW_MS + 1 }

AttEventsLogged == { i \in 1..Len(attLog) : attLog[i].kind = "event" }
AttRequestsLogged == { i \in 1..Len(attLog) : attLog[i].kind = "made" }

AttInit ==
    /\ attNow = StartTime
    /\ pendingAttachments = [version |-> 0, lastEventAtMs |-> NullNum, files |-> {}]
    /\ attachmentSignal = [lastEventAtMs |-> NullNum, lastConsumedEventAtMs |-> 0]
    /\ lastConsumedAttachmentVersion = 0
    /\ attInFlight = 0
    /\ attLog = <<>>

AttIdle == AttInit

\* registerAttachmentFilesEvent(files, source) with one file that is not
\* pending yet (the file is named by the number of the event)
RegisterAttachmentFilesEvent(gap) ==
    /\ Cardinality(AttEventsLogged) < MaxAttEvents
    /\ LET e == Cardinality(AttEventsLogged) + 1
           t == attNow + gap
       IN /\ attNow' = t
          /\ attachmentSignal' = [attachmentSignal EXCEPT !.lastEventAtMs = t]
          /\ pendingAttachments' =
                [ version |-> pendingAttachments.version + 1,
                  lastEventAtMs |-> t,
                  files |-> pendingAttachments.files \cup {e} ]
          /\ attLog' = Append(attLog, [kind |-> "event", id |-> e, at |-> t])
    /\ UNCHANGED <<lastConsumedAttachmentVersion, attInFlight>>

\* the page calls the wrapped fetch for a chat completion: the wrapper awaits
\* originalFetch
FetchCalled(gap) ==
    /\ attInFlight = 0
    /\ Cardinality(AttRequestsLogged) < MaxAttEvents
    /\ LET r == Cardinality(AttRequestsLogged) + 1
       IN /\ attNow' = attNow + gap
          /\ attInFlight' = r
          /\ attLog' = Append(attLog, [kind |-> "made", id |-> r, at |-> attNow + gap])
    /\ UNCHANGED <<pendingAttachments, attachmentSignal, lastConsumedAttachmentVersion>>

\* getAttachmentMetaForRequest() at the time nowMs: hasFiles, the files
\* reported, and whether the pending files are consumed
getAttachmentMetaForRequest(nowMs) ==
    LET lastAt == IF pendingAttachments.lastEventAtMs # NullNum
                  THEN pendingAttachments.lastEventAtMs
                  ELSE attachmentSignal.lastEventAtMs
        ageMs == IF lastAt # NullNum THEN Max0(nowMs - lastAt) ELSE NullNum
        withinWindow == ageMs # NullNum /\ ageMs <= ATTACHMENT_EVENT_WINDOW_MS
        hasUnconsumedPending ==
            /\ pendingAttachments.version > 0
            /\ pendingAttachments.version > lastConsumedAttachmentVersion
        unconsumed ==
            \/ hasUnconsumedPending
            \/ (lastAt # NullNum /\ lastAt > attachmentSignal.lastConsumedEventAtMs)
        hasFiles == withinWindow /\ unconsumed /\ pendingAttachments.files # {}
    IN [ hasFiles |-> hasFiles, files |-> pendingAttachments.files, lastAt |-> lastAt ]

\* originalFetch has resolved: the wrapper builds the request metadata, which
\* calls getAttachmentMetaForRequest; a request that reports files consumes
\* the pending ones
BuildRequestMeta ==
    /\ attInFlight # 0
    /\ LET meta == getAttachmentMetaForRequest(attNow)
       IN /\ attLog' = Append(attLog,
                [ kind |-> "meta", id |-> attInFlight, at |-> attNow,
                  has_files |-> meta.hasFiles, files |-> meta.files ])
          /\ IF meta.hasFiles
             THEN /\ attachmentSignal' =
                        [attachmentSignal EXCEPT !.lastConsumedEventAtMs = meta.lastAt]
                  /\ lastConsumedAttachmentVersion' = pendingAttachments.version
                  /\ pendingAttachments' =
                        [version |-> 0, lastEventAtMs |-> NullNum, files |-> {}]
             ELSE UNCHANGED <<attachmentSignal, lastConsumedAttachmentVersion,
                              pendingAttachments>>
    /\ attInFlight' = 0
    /\ UNCHANGED attNow

AttNext ==
    \/ \E gap \in AttGaps : RegisterAttachmentFilesEvent(gap)
    \/ \E gap \in AttGaps : FetchCalled(gap)
    \/ BuildRequestMeta

\* the place in the log where request r was made, and its metadata (if built)
MadeAt(r) == CHOOSE i \in 1..Len(attLog) : attLog[i].kind = "made" /\ attLog[i].id = r
MetaOf(r) == { i \in 1..Len(attLog) : attLog[i].kind = "meta" /\ attLog[i].id = r }

\* the first request made after the log entry i, or 0
FirstRequestAfter(i) ==
    LET later == { j \in AttRequestsLogged : j > i }
    IN IF later = {} THEN 0 ELSE attLog[CHOOSE j \in later : \A k \in later : j <= k].id

\* C40: the files of an attachment event are reported by exactly the first
\* request made after the event, when that request is made within the
\* window: that request reports has_files true with the event's file among
\* its files, and no request that was made before the event, and no second
\* request, reports the file with has_files true.
C40_AttributedToFirstRequest ==
    \A i \in AttEventsLogged :
        LET e == attLog[i].id
            first == FirstRequestAfter(i)
        IN /\ \A j \in 1..Len(attLog) :
                 (attLog[j].kind = "meta" /\ attLog[j].has_files /\ e \in attLog[j].files)
                    => attLog[j].id = first
           /\ (first # 0 /\ MetaOf(first) # {}
                 /\ attLog[MadeAt(first)].at - attLog[i].at <= ATTACHMENT_EVENT_WINDOW_MS)
                 => \E j \in MetaOf(first) :
                       attLog[j].has_files /\ e \in attLog[j].files

AuxIdle == FetchIdle /\ ClearIdle /\ ImpIdle /\ CapIdle /\ CatIdle /\ TxtIdle /\ SplIdle /\ FailIdle /\ AttIdle

\* ------------------------------------------------------------------------
\* Specifications
\* ------------------------------------------------------------------------
Init == ParserInit /\ RotIdle /\ BgIdle /\ AggIdle /\ TimIdle /\ AuxIdle
Next == ParserNext /\ UNCHANGED <<rotVars, bgVars, aggVars, timVars, auxVars>>
Spec == Init /\ [][Next]_vars

InitRotate == RotInit /\ ParserIdle /\ BgIdle /\ AggIdle /\ TimIdle /\ AuxIdle
NextRotate == RotNext /\ UNCHANGED <<parserVars, bgVars, aggVars, timVars, auxVars>>
SpecRotate == InitRotate /\ [][NextRotate]_vars

InitChain == BgInit /\ ParserIdle /\ RotIdle /\ AggIdle /\ TimIdle /\ AuxIdle
NextChain == BgNext /\ UNCHANGED <<parserVars, rotVars, aggVars, timVars, auxVars>>
SpecChain == InitChain /\ [][NextChain]_vars

NextSeq == BgNextSeq /\ UNCHANGED <<parserVars, rotVars, aggVars, timVars, auxVars>>
SpecSeq == InitChain /\ [][NextSeq]_vars

NextTurns == BgNextTurns /\ UNCHANGED <<parserVars, rotVars, aggVars, timVars, auxVars>>
SpecTurns == InitChain /\ [][NextTurns]_vars

InitAgg == AggInit /\ ParserIdle /\ RotIdle /\ BgIdle /\ TimIdle /\ AuxIdle
NextAgg == AggNext /\ UNCHANGED <<parserVars, rotVars, bgVars, timVars, auxVars>>
SpecAgg == InitAgg /\ [][NextAgg]_vars

InitTiming == TimInit /\ ParserIdle /\ RotIdle /\ BgIdle /\ AggIdle /\ AuxIdle
NextTiming == TimNext /\ UNCHANGED <<parserVars, rotVars, bgVars, aggVars, auxVars>>
SpecTiming == InitTiming /\ [][NextTiming]_vars

InitStats == StatsInit /\ ParserIdle /\ RotIdle /\ BgIdle /\ TimIdle /\ AuxIdle
NextStats == StatsNext /\ UNCHANGED <<parserVars, rotVars, bgVars, timVars, auxVars>>
SpecStats == InitStats /\ [][NextStats]_vars

InitHashes == HashInit /\ ParserIdle /\ RotIdle /\ BgIdle /\ TimIdle /\ AuxIdle
SpecHashes == InitHashes /\ [][NextAgg]_vars

\* the other components
CoreIdle == ParserIdle /\ RotIdle /\ BgIdle /\ AggIdle /\ TimIdle
coreVars == <<parserVars, rotVars, bgVars, aggVars, timVars>>

InitFetch == FetchInit /\ CoreIdle /\ ClearIdle /\ ImpIdle /\ CapIdle /\ CatIdle /\ TxtIdle /\ SplIdle /\ FailIdle /\ AttIdle
NextFetch == FetchNext /\ UNCHANGED <<coreVars, clearVars, impVars, capVars, catVars, txtVars, splVars, failVars, attVars>>
SpecFetch == InitFetch /\ [][NextFetch]_vars

InitClear == ClearInit /\ ParserIdle /\ RotIdle /\ AggIdle /\ TimIdle /\ FetchIdle /\ ImpIdle /\ CapIdle /\ CatIdle /\ TxtIdle /\ SplIdle /\ FailIdle /\ AttIdle
NextClear == ClearNext /\ UNCHANGED <<parserVars, rotVars, aggVars, timVars, fetchVars, impVars, capVars, catVars, txtVars, splVars, failVars, attVars>>
SpecClear == InitClear /\ [][NextClear]_vars

InitImport == ImpInit /\ CoreIdle /\ FetchIdle /\ ClearIdle /\ CapIdle /\ CatIdle /\ TxtIdle /\ SplIdle /\ FailIdle /\ AttIdle
NextImport == ImpNext /\ UNCHANGED <<coreVars, fetchVars, clearVars, capVars, catVars, txtVars, splVars, failVars, attVars>>
SpecImport == InitImport /\ [][NextImport]_vars

InitCapture == CapInit /\ CoreIdle /\ FetchIdle /\ ClearIdle /\ ImpIdle /\ CatIdle /\ TxtIdle /\ SplIdle /\ FailIdle /\ AttIdle
NextCapture == CapNext /\ UNCHANGED <<coreVars, fetchVars, clearVars, impVars, catVars, txtVars, splVars, failVars, attVars>>
SpecCapture == InitCapture /\ [][NextCapture]_vars

InitCategory == CatInit /\ CoreIdle /\ FetchIdle /\ ClearIdle /\ ImpIdle /\ CapIdle /\ TxtIdle /\ SplIdle /\ FailIdle /\ AttIdle
NextCategory == CatNext /\ UNCHANGED <<coreVars, fetchVars, clearVars, impVars, capVars, txtVars, splVars, failVars, attVars>>
SpecCategory == InitCategory /\ [][NextCategory]_vars

InitText == TxtInit /\ CoreIdle /\ FetchIdle /\ ClearIdle /\ ImpIdle /\ CapIdle /\ CatIdle /\ SplIdle /\ FailIdle /\ AttIdle
NextText == TxtNext /\ UNCHANGED <<coreVars, fetchVars, clearVars, impVars, capVars, catVars, splVars, failVars, attVars>>
SpecText == InitText /\ [][NextText]_vars

InitSplit == SplInit /\ CoreIdle /\ FetchIdle /\ ClearIdle /\ ImpIdle /\ CapIdle /\ CatIdle /\ TxtIdle /\ FailIdle /\ AttIdle
NextSplit == SplNext /\ UNCHANGED <<coreVars, fetchVars, clearVars, impVars, capVars, catVars, txtVars, failVars, attVars>>
SpecSplit == InitSplit /\ [][NextSplit]_vars

InitFail == FailInit /\ ParserIdle /\ RotIdle /\ AggIdle /\ TimIdle /\ FetchIdle /\ ClearIdle /\ ImpIdle /\ CapIdle /\ CatIdle /\ TxtIdle /\ SplIdle /\ AttIdle
NextFail == FailNext /\ UNCHANGED <<parserVars, rotVars, aggVars, timVars, fetchVars, clearVars, impVars, capVars, catVars, txtVars, splVars, attVars>>
SpecFail == InitFail /\ [][NextFail]_vars

InitAttach == AttInit /\ CoreIdle /\ FetchIdle /\ ClearIdle /\ ImpIdle /\ CapIdle /\ CatIdle /\ TxtIdle /\ SplIdle /\ FailIdle
NextAttach == AttNext /\ UNCHANGED <<coreVars, fetchVars, clearVars, impVars, capVars, catVars, txtVars, splVars, failVars>>
SpecAttach == InitAttach /\ [][NextAttach]_vars

====
